---- MODULE Spec2Model ----
(***************************************************************************)
(* A model of SchemaDirectiveVisitor.visitSchema (src/src/directives.ts):  *)
(* the schema walk, the per-node resolution of directive occurrences into  *)
(* visitor instances, the two argument coercion modes and the untyped      *)
(* literal decoder valueFromASTUntyped.                                    *)
(***************************************************************************)
EXTENDS Integers, Sequences, FiniteSets, TLC

VARIABLES
  astNode,            \* node -> type.astNode, holding the occurrences on it
  schemaDirectives,   \* schema.getDirectives(): the declared directives
  directiveVisitors,  \* the caller's table: directive name -> visitor class
  pc,                 \* "start", "walking", "returned" or "thrown"
  declaredDirectives, \* visitSchema's local table name -> declaration
  createdVisitors,    \* visitSchema's local map name -> list of instances
  callIdx,            \* position of the walk in the callVisitorMethods calls
  pending,            \* instances getVisitors returned, not yet dispatched
  constructed,        \* every instance built by `new visitorClass`, in order
  dispatched,         \* log of the d[methodName](type, ...) calls, in order
  thrown,             \* the error that left visitSchema, or NoError
  result,             \* what visitSchema returned, or NoResult
  valueNode,          \* decoder harness: the literal handed to the decoder
  decoded,            \* decoder harness: what the decoder returned
  locations,          \* class -> its own static property `locations`
  located             \* log of the calls of the classes' static methods and
                      \* their results

vars == << astNode, schemaDirectives, directiveVisitors, pc,
           declaredDirectives, createdVisitors, callIdx, pending,
           constructed, dispatched, thrown, result, valueNode, decoded, locations, located >>

walkVars == << astNode, schemaDirectives, directiveVisitors, pc,
               declaredDirectives, createdVisitors, callIdx, pending,
               constructed, dispatched, thrown, result >>

(***************************************************************************)
(* Bounds of the model.                                                    *)
(***************************************************************************)
\* occurrences on one annotated node
MaxOccurrences == 2
\* size (number of AST nodes) of a literal handed to the decoder harness
MaxNodes == 3
\* digits of an integer literal handed to the decoder harness
MaxDigits == 2

(***************************************************************************)
(* JavaScript values.  A value is a record tagged by its type; an object   *)
(* is the list of its own properties in insertion order.                   *)
(***************************************************************************)
Undefined == [t |-> "undefined"]
JsNull == [t |-> "null"]
JsNumber(n, d) == [t |-> "number", num |-> n, den |-> d]
JsNaN == [t |-> "number", nan |-> TRUE]
JsString(s) == [t |-> "string", str |-> s]
JsBoolean(b) == [t |-> "boolean", bool |-> b]
JsArray(xs) == [t |-> "array", items |-> xs]
JsObject(ps) == [t |-> "object", props |-> ps]
\* a thrown Error travelling up the call stack instead of a value
Throw(msg) == [t |-> "throw", message |-> msg]
IsThrow(v) == v.t = "throw"

\* Object.create(null)
EmptyObject == <<>>
ObjKeys(ps) == { ps[i].key : i \in 1..Len(ps) }
ObjHas(ps, k) == k \in ObjKeys(ps)
ObjGet(ps, k) == ps[CHOOSE i \in 1..Len(ps) : ps[i].key = k].val
\* a mutation of ObjSet: an existing property keeps its first value
ObjSetKeepFirst(ps, k, v) ==
  IF ObjHas(ps, k) THEN ps ELSE Append(ps, [key |-> k, val |-> v])
\* obj[k] = v: an existing property is overwritten in place, a new one is
\* added after the others
ObjSet(ps, k, v) ==
  IF ObjHas(ps, k)
  THEN [i \in 1..Len(ps) |->
         IF ps[i].key = k THEN [key |-> k, val |-> v] ELSE ps[i]]
  ELSE Append(ps, [key |-> k, val |-> v])

(***************************************************************************)
(* Raw literals (graphql ValueNode).  The text of a number literal is the  *)
(* sequence of its characters.                                             *)
(***************************************************************************)
KindNULL == "NullValue"
KindINT == "IntValue"
KindFLOAT == "FloatValue"
KindSTRING == "StringValue"
KindENUM == "EnumValue"
KindBOOLEAN == "BooleanValue"
KindLIST == "ListValue"
KindOBJECT == "ObjectValue"
KindVARIABLE == "Variable"

NullNode == [kind |-> KindNULL]
IntNode(text) == [kind |-> KindINT, value |-> text]
FloatNode(text) == [kind |-> KindFLOAT, value |-> text]
StringNode(s) == [kind |-> KindSTRING, value |-> JsString(s)]
EnumNode(s) == [kind |-> KindENUM, value |-> JsString(s)]
BooleanNode(b) == [kind |-> KindBOOLEAN, value |-> JsBoolean(b)]
ListNode(vs) == [kind |-> KindLIST, values |-> vs]
ObjectNode(fs) == [kind |-> KindOBJECT, fields |-> fs]
VariableNode(n) == [kind |-> KindVARIABLE, name |-> n]
ObjectField(n, v) == [name |-> n, value |-> v]

DigitChars == <<"0", "1", "2", "3", "4", "5", "6", "7", "8", "9">>
IsDigit(c) == \E i \in 1..10 : DigitChars[i] = c
DigitValue(c) == (CHOOSE i \in 1..10 : DigitChars[i] = c) - 1

RECURSIVE DigitPrefix(_)
\* the longest run of digits a text starts with
DigitPrefix(s) ==
  IF s = <<>> \/ ~IsDigit(Head(s)) THEN <<>>
  ELSE <<Head(s)>> \o DigitPrefix(Tail(s))

RECURSIVE DigitsNumber(_, _)
\* the number a run of digits denotes in base 10, most significant first
DigitsNumber(s, acc) ==
  IF s = <<>> THEN acc
  ELSE DigitsNumber(Tail(s), 10 * acc + DigitValue(Head(s)))

HasSign(s) == s # <<>> /\ Head(s) \in {"-", "+"}
Unsigned(s) == IF HasSign(s) THEN Tail(s) ELSE s
SignOf(s) == IF s # <<>> /\ Head(s) = "-" THEN -1 ELSE 1

\* a mutation of ParseInt: the sign of the text is dropped
ParseIntUnsigned(s) ==
  LET ds == DigitPrefix(Unsigned(s))
  IN  IF ds = <<>> THEN JsNaN ELSE JsNumber(DigitsNumber(ds, 0), 1)
\* parseInt(s, 10): an optional sign, then the longest run of digits
ParseInt(s) ==
  LET ds == DigitPrefix(Unsigned(s))
  IN  IF ds = <<>> THEN JsNaN
      ELSE JsNumber(SignOf(s) * DigitsNumber(ds, 0), 1)

RECURSIVE Reduce10(_, _)
\* num / den with den a power of ten, in lowest power of ten
Reduce10(num, den) ==
  IF den > 1 /\ num % 10 = 0 THEN Reduce10(num \div 10, den \div 10)
  ELSE JsNumber(num, den)

RECURSIVE Pow10(_)
Pow10(k) == IF k = 0 THEN 1 ELSE 10 * Pow10(k - 1)

\* parseFloat(s) on a text made of an optional sign, digits and an optional
\* fraction: the decimal number the text denotes
ParseFloat(s) ==
  LET body == Unsigned(s)
      ip == DigitPrefix(body)
      rest == SubSeq(body, Len(ip) + 1, Len(body))
      fp == IF rest # <<>> /\ Head(rest) = "." THEN DigitPrefix(Tail(rest))
            ELSE <<>>
  IN  IF ip = <<>> /\ fp = <<>> THEN JsNaN
      ELSE Reduce10(SignOf(s) * DigitsNumber(ip \o fp, 0), Pow10(Len(fp)))

(***************************************************************************)
(* valueFromASTUntyped, the untyped literal decoder.                       *)
(***************************************************************************)
\* a mutation of UnexpectedKind: an unlisted kind decodes to null
UnexpectedKindIgnored(node) == JsNull
\* a mutation of UnexpectedKind: the message leaves the kind out
UnexpectedKindNoKind(node) == Throw(<<"Unexpected value kind: ">>)
UnexpectedKind(node) == Throw(<<"Unexpected value kind: ", node.kind>>)

\* the first thrown error among the results of a map, in element order
FirstThrow(items) ==
  items[CHOOSE i \in 1..Len(items) :
          IsThrow(items[i]) /\ \A j \in 1..(i - 1) : ~IsThrow(items[j])]
AnyThrow(items) == \E i \in 1..Len(items) : IsThrow(items[i])

RECURSIVE valueFromASTUntyped(_)
RECURSIVE MapValues(_)
RECURSIVE EachField(_, _)

\* a mutation of MapValues: the elements come out in reverse order
MapValuesReversed(values) ==
  [i \in 1..Len(values) |-> valueFromASTUntyped(values[Len(values) + 1 - i])]
\* valueNode.values.map(valueFromASTUntyped)
MapValues(values) ==
  IF values = <<>> THEN <<>>
  ELSE << valueFromASTUntyped(Head(values)) >> \o MapValues(Tail(values))

\* valueNode.fields.forEach(field => obj[field.name.value] = ...)
EachField(fields, obj) ==
  IF fields = <<>> THEN JsObject(obj)
  ELSE LET v == valueFromASTUntyped(Head(fields).value)
       IN  IF IsThrow(v) THEN v
           ELSE EachField(Tail(fields), ObjSet(obj, Head(fields).name, v))

valueFromASTUntyped(node) ==
  CASE node.kind = KindNULL -> JsNull
    [] node.kind = KindINT -> ParseInt(node.value)
    [] node.kind = KindFLOAT -> ParseFloat(node.value)
    [] node.kind \in {KindSTRING, KindENUM, KindBOOLEAN} -> node.value
    [] node.kind = KindLIST ->
         LET items == MapValues(node.values)
         IN  IF AnyThrow(items) THEN FirstThrow(items) ELSE JsArray(items)
    [] node.kind = KindOBJECT -> EachField(node.fields, EmptyObject)
    [] OTHER -> UnexpectedKind(node)

(***************************************************************************)
(* Visitor classes.  A class is its superclass and the properties its own  *)
(* prototype defines; a method is identified by the class that defines it. *)
(***************************************************************************)
BaseClass == "SchemaDirectiveVisitor"

methodToLocationMap ==
  [ visitSchema |-> "SCHEMA",
    visitScalar |-> "SCALAR",
    visitObject |-> "OBJECT",
    visitFieldDefinition |-> "FIELD_DEFINITION",
    visitArgumentDefinition |-> "ARGUMENT_DEFINITION",
    visitInterface |-> "INTERFACE",
    visitUnion |-> "UNION",
    visitEnum |-> "ENUM",
    visitEnumValue |-> "ENUM_VALUE",
    visitInputObject |-> "INPUT_OBJECT",
    visitInputFieldDefinition |-> "INPUT_FIELD_DEFINITION" ]

\* the visit* stubs of the SchemaDirectiveVisitor class body
BaseMethods ==
  { "visitSchema", "visitScalar", "visitObject", "visitFieldDefinition",
    "visitArgumentDefinition", "visitInterface", "visitUnion", "visitEnum",
    "visitEnumValue", "visitInputObject", "visitInputFieldDefinition" }

\* the classes of the model: the base class and subclasses a caller writes.
\* own: the methods the class body defines with a function of its own;
\* borrowed: the methods the class sets to the base class's visitScalar stub
Classes ==
  [ SchemaDirectiveVisitor |->
      [extends |-> "none", own |-> BaseMethods, borrowed |-> {}],
    AuthVisitor |->
      [extends |-> BaseClass, own |-> {"visitObject", "visitFieldDefinition"},
       borrowed |-> {}],
    EnumAuthVisitor |->
      [extends |-> "AuthVisitor", own |-> {"visitEnumValue", "ensureWrapped"},
       borrowed |-> {}],
    AllVisitor |-> [extends |-> BaseClass, own |-> BaseMethods, borrowed |-> {}],
    FieldVisitor |->
      [extends |-> BaseClass, own |-> {"visitFieldDefinition"},
       borrowed |-> {}],
    InputFieldVisitor |->
      [extends |-> BaseClass, own |-> {"visitInputFieldDefinition"},
       borrowed |-> {}],
    StubAliasVisitor |->
      [extends |-> BaseClass, own |-> {}, borrowed |-> {"visitObject"}] ]
ClassNames == DOMAIN Classes

RECURSIVE Definer(_, _)
\* the class whose prototype supplies cls.prototype[prop], "none" if none
Definer(cls, prop) ==
  IF cls = "none" THEN "none"
  ELSE IF prop \in Classes[cls].own \cup Classes[cls].borrowed THEN cls
  ELSE Definer(Classes[cls].extends, prop)

\* cls.prototype[prop]: the function found along the prototype chain; a
\* function is named by the class and the method that define it
PrototypeGet(cls, prop) ==
  LET d == Definer(cls, prop)
  IN  IF d # "none" /\ prop \in Classes[d].borrowed
      THEN << BaseClass, "visitScalar" >>
      ELSE << d, prop >>

visitorMethodStubSet ==
  { PrototypeGet(BaseClass, key) : key \in DOMAIN methodToLocationMap }

\* a mutation of shouldCall: the method is compared with the base class's
\* stub of the same name only
shouldCallSameStub(cls, methodName) ==
  /\ methodName \in DOMAIN methodToLocationMap
  /\ PrototypeGet(cls, methodName) # PrototypeGet(BaseClass, methodName)
\* a mutation of shouldCall: every recognized method is called
shouldCallAlways(cls, methodName) == methodName \in DOMAIN methodToLocationMap
shouldCall(cls, methodName) ==
  /\ methodName \in DOMAIN methodToLocationMap
  /\ PrototypeGet(cls, methodName) \notin visitorMethodStubSet

\* a class has no own static property `locations`: it inherits its
\* superclass's
Absent == [t |-> "absent"]
\* private static locations = null, on the base class
InitialLocations ==
  [ cls \in ClassNames |-> IF cls = BaseClass THEN JsNull ELSE Absent ]

RECURSIVE StaticGet(_, _)
\* this.locations, read on class cls: the own property of the nearest
\* class along the chain of superclasses that has one
StaticGet(locs, cls) ==
  IF cls = "none" THEN Undefined
  ELSE IF locs[cls] # Absent THEN locs[cls]
  ELSE StaticGet(locs, Classes[cls].extends)

\* the order in which the class body and methodToLocationMap list the methods
MethodOrder ==
  << "visitSchema", "visitScalar", "visitObject", "visitFieldDefinition",
     "visitArgumentDefinition", "visitInterface", "visitUnion", "visitEnum",
     "visitEnumValue", "visitInputObject", "visitInputFieldDefinition" >>

RECURSIVE PrototypeKeys(_)
\* for (key in cls.prototype): the own keys, then the keys of the
\* superclasses' prototypes not met before
PrototypeKeys(cls) ==
  IF cls = "none" THEN <<>>
  ELSE LET own == SelectSeq(MethodOrder, LAMBDA m : m \in Classes[cls].own)
                    \o (IF "ensureWrapped" \in Classes[cls].own
                        THEN << "ensureWrapped" >> ELSE <<>>)
           inherited == PrototypeKeys(Classes[cls].extends)
       IN  own \o SelectSeq(inherited, LAMBDA m : m \notin Classes[cls].own)

RECURSIVE PushLocations(_, _)
\* the loop of getLocations over the keys, pushing the location of every
\* key shouldCall accepts
PushLocations(cls, keys) ==
  IF keys = <<>> THEN <<>>
  ELSE (IF shouldCall(cls, Head(keys))
        THEN << methodToLocationMap[Head(keys)] >> ELSE <<>>)
         \o PushLocations(cls, Tail(keys))

(***************************************************************************)
(* The schema walked.  Its structure is fixed; the directive occurrences   *)
(* on its nodes and its declared directives are inputs.  A type name is    *)
(* the sequence of its characters.                                         *)
(***************************************************************************)
SchemaNode == "schema"

typeMap ==
  << [name |-> <<"Q", "u", "e", "r", "y">>, type |-> "Query"],
     [name |-> <<"_", "_", "T", "y", "p", "e">>, type |-> "__Type"],
     [name |-> <<"N", "o", "d", "e">>, type |-> "Node"],
     [name |-> <<"F", "i", "l", "t", "e", "r">>, type |-> "Filter"],
     [name |-> <<"_", "A", "n", "y">>, type |-> "_Any"],
     [name |-> <<"R", "e", "s", "u", "l", "t">>, type |-> "Result"],
     [name |-> <<"R", "o", "l", "e">>, type |-> "Role"] >>

NamedTypes ==
  [ Query |-> [class |-> "GraphQLObjectType",
               fields |-> <<"Query_me", "Query_all">>],
    __Type |-> [class |-> "GraphQLObjectType", fields |-> <<>>],
    Node |-> [class |-> "GraphQLInterfaceType", fields |-> <<"Node_id">>],
    Filter |-> [class |-> "GraphQLInputObjectType",
                fields |-> <<"Filter_max">>],
    _Any |-> [class |-> "GraphQLScalarType"],
    Result |-> [class |-> "GraphQLUnionType", types |-> <<"Query", "__Type">>],
    Role |-> [class |-> "GraphQLEnumType",
              values |-> <<"Role_ADMIN", "Role_USER">>] ]

\* field.args and the type a field or argument refers to
Fields ==
  [ Query_me |-> [args |-> <<"Query_me_id", "Query_me_as">>, type |-> "Node"],
    Query_all |-> [args |-> <<>>, type |-> "Result"],
    Node_id |-> [args |-> <<>>, type |-> "_Any"],
    Filter_max |-> [type |-> "Filter"] ]

Arguments ==
  [ Query_me_id |-> [type |-> "_Any"],
    Query_me_as |-> [type |-> "Role"] ]

EnumValueNodes == {"Role_ADMIN", "Role_USER"}

Nodes ==
  {SchemaNode} \cup DOMAIN NamedTypes \cup DOMAIN Fields \cup DOMAIN Arguments
    \cup EnumValueNodes

\* a mutation of StartsWith: only the first character is compared
StartsWithFirstChar(str, prefix) ==
  Len(str) >= 1 /\ Len(prefix) >= 1 /\ str[1] = prefix[1]
StartsWith(str, prefix) ==
  Len(str) >= Len(prefix) /\ SubSeq(str, 1, Len(prefix)) = prefix

RECURSIVE Flatten(_)
\* the calls a forEach makes, in order: the concatenation of the calls made
\* for each element
Flatten(xss) ==
  IF xss = <<>> THEN <<>> ELSE Head(xss) \o Flatten(Tail(xss))

\* one callVisitorMethods(methodName, type, ...additionalArgs) call
Call(methodName, type, additionalArgs) ==
  [methodName |-> methodName, type |-> type, additionalArgs |-> additionalArgs]

\* a mutation of visitFields: all the fields first, their arguments after
visitFieldsArgumentsLast(type) ==
  LET ArgCalls(field) ==
        LET OneArg(arg) ==
              << Call("visitArgumentDefinition", arg,
                      << [field |-> field, objectType |-> type] >>) >>
            args == Fields[field].args
        IN  IF "args" \in DOMAIN Fields[field]
            THEN Flatten([i \in 1..Len(args) |-> OneArg(args[i])])
            ELSE <<>>
      OneField(field) ==
        << Call("visitFieldDefinition", field, << [objectType |-> type] >>) >>
      fields == NamedTypes[type].fields
  IN  Flatten([i \in 1..Len(fields) |-> OneField(fields[i])])
        \o Flatten([i \in 1..Len(fields) |-> ArgCalls(fields[i])])
\* a mutation of visitFields: an argument is given the type its field returns
\* in place of the type that owns the field
visitFieldsReturnType(type) ==
  LET ArgCalls(field) ==
        LET OneArg(arg) ==
              << Call("visitArgumentDefinition", arg,
                      << [field |-> field,
                          objectType |-> Fields[field].type] >>) >>
            args == Fields[field].args
        IN  IF "args" \in DOMAIN Fields[field]
            THEN Flatten([i \in 1..Len(args) |-> OneArg(args[i])])
            ELSE <<>>
      OneField(field) ==
        << Call("visitFieldDefinition", field, << [objectType |-> type] >>) >>
          \o ArgCalls(field)
      fields == NamedTypes[type].fields
  IN  Flatten([i \in 1..Len(fields) |-> OneField(fields[i])])
\* visitFields(type): each field, then the arguments of that field
visitFields(type) ==
  LET ArgCalls(field) ==
        LET OneArg(arg) ==
              << Call("visitArgumentDefinition", arg,
                      << [field |-> field, objectType |-> type] >>) >>
            args == Fields[field].args
        IN  IF "args" \in DOMAIN Fields[field]
            THEN Flatten([i \in 1..Len(args) |-> OneArg(args[i])])
            ELSE <<>>
      OneField(field) ==
        << Call("visitFieldDefinition", field, << [objectType |-> type] >>) >>
          \o ArgCalls(field)
      fields == NamedTypes[type].fields
  IN  Flatten([i \in 1..Len(fields) |-> OneField(fields[i])])

\* a mutation of visitInputFields: input fields go through visitFields
visitInputFieldsAsFields(type) == visitFields(type)
\* each(type.getFields(), field => callVisitorMethods(
\*   'visitInputFieldDefinition', field, {objectType: type}))
visitInputFields(type) ==
  LET OneField(field) ==
        << Call("visitInputFieldDefinition", field,
                << [objectType |-> type] >>) >>
      fields == NamedTypes[type].fields
  IN  Flatten([i \in 1..Len(fields) |-> OneField(fields[i])])

\* a mutation of visitUnionMembers: type.getTypes().forEach(visit), the
\* members of a union being object types
visitUnionMembersEntered(type) ==
  LET OneMember(member) ==
        << Call("visitObject", member, <<>>) >> \o visitFields(member)
      types == NamedTypes[type].types
  IN  Flatten([i \in 1..Len(types) |-> OneMember(types[i])])
\* the member types of a union are not visited from the union
visitUnionMembers(type) == <<>>

\* visit(type) for a named type: the instanceof chain
visitNamedType(type) ==
  LET class == NamedTypes[type].class
  IN  CASE class = "GraphQLObjectType" ->
             << Call("visitObject", type, <<>>) >> \o visitFields(type)
        [] class = "GraphQLInterfaceType" ->
             << Call("visitInterface", type, <<>>) >> \o visitFields(type)
        [] class = "GraphQLInputObjectType" ->
             << Call("visitInputObject", type, <<>>) >>
               \o visitInputFields(type)
        [] class = "GraphQLScalarType" -> << Call("visitScalar", type, <<>>) >>
        [] class = "GraphQLUnionType" ->
             << Call("visitUnion", type, <<>>) >> \o visitUnionMembers(type)
        [] class = "GraphQLEnumType" ->
             LET OneValue(value) ==
                   << Call("visitEnumValue", value, << [enumType |-> type] >>) >>
             IN  << Call("visitEnum", type, <<>>) >>
                   \o Flatten([i \in 1..Len(NamedTypes[type].values) |->
                                OneValue(NamedTypes[type].values[i])])
        [] OTHER -> <<>>

\* a mutation of visit: the types of the type map first, the schema itself
\* after them
visitSchemaLast ==
  LET OneType(entry) ==
        IF ~StartsWith(entry.name, <<"_", "_">>) THEN visitNamedType(entry.type)
        ELSE <<>>
  IN  Flatten([i \in 1..Len(typeMap) |-> OneType(typeMap[i])])
        \o << Call("visitSchema", SchemaNode, <<>>) >>
\* visit(schema): the schema itself, then every type of the type map whose
\* name does not start with '__'
visit ==
  LET OneType(entry) ==
        IF ~StartsWith(entry.name, <<"_", "_">>) THEN visitNamedType(entry.type)
        ELSE <<>>
  IN  << Call("visitSchema", SchemaNode, <<>>) >>
        \o Flatten([i \in 1..Len(typeMap) |-> OneType(typeMap[i])])

(***************************************************************************)
(* Directive occurrences, declarations and argument coercion.              *)
(***************************************************************************)
AstNode(ds) == [t |-> "node", directives |-> ds]
DirectiveNode(name, arguments) == [name |-> name, arguments |-> arguments]
ArgumentNode(name, value) == [name |-> name, value |-> value]

\* a declared parameter, with or without a default value
ArgDef(name, type) == [name |-> name, type |-> type, defaultValue |-> Undefined]
ArgDefDefault(name, type, dflt) ==
  [name |-> name, type |-> type, defaultValue |-> dflt]
DirectiveDecl(name, args, on) ==
  [name |-> name, args |-> args, locations |-> on]

\* the last argument of an occurrence with the given name, Undefined if none
ArgumentNamed(arguments, name) ==
  LET hits == { i \in 1..Len(arguments) : arguments[i].name = name }
  IN  IF hits = {} THEN Undefined
      ELSE arguments[CHOOSE i \in hits : \A j \in hits : j <= i]

EnumTypeValues == [Role |-> {"ADMIN", "USER"}]

\* the declared type's coercion of a literal; a literal the type does not
\* accept is a thrown error
CoerceThroughType(type, node) ==
  CASE node.kind = KindNULL -> JsNull
    [] type \in DOMAIN EnumTypeValues ->
         IF node.kind = KindENUM /\ node.value.str \in EnumTypeValues[type]
         THEN node.value
         ELSE Throw(<<"Argument has invalid value", type>>)
    [] type = "Int" ->
         IF node.kind = KindINT THEN ParseInt(node.value)
         ELSE Throw(<<"Argument has invalid value", type>>)
    [] OTHER -> Throw(<<"Argument has invalid value", type>>)

RECURSIVE CoerceDeclared(_, _, _)
\* one declared parameter after the other; an argument left out, or given
\* as a variable (no variable has a value here), takes the default if the
\* parameter declares one and is left out of the mapping otherwise
CoerceDeclared(argDefs, arguments, coerced) ==
  IF argDefs = <<>> THEN JsObject(coerced)
  ELSE LET def == Head(argDefs)
           given == ArgumentNamed(arguments, def.name)
       IN  IF given = Undefined \/ given.value.kind = KindVARIABLE
           THEN IF def.defaultValue = Undefined
                THEN CoerceDeclared(Tail(argDefs), arguments, coerced)
                ELSE CoerceDeclared(Tail(argDefs), arguments,
                                    ObjSet(coerced, def.name, def.defaultValue))
           ELSE LET v == CoerceThroughType(def.type, given.value)
                IN  IF IsThrow(v) THEN v
                    ELSE CoerceDeclared(Tail(argDefs), arguments,
                                        ObjSet(coerced, def.name, v))

\* getArgumentValues(decl, directiveNode): typed coercion against a
\* declaration, defaults filled in for the parameters left out
getArgumentValues(decl, directiveNode) ==
  CoerceDeclared(decl.args, directiveNode.arguments, EmptyObject)

\* a mutation of EachArgument: the loop ends after the first argument
EachArgumentFirstOnly(arguments, args) ==
  IF arguments = <<>> THEN JsObject(args)
  ELSE LET v == valueFromASTUntyped(Head(arguments).value)
       IN  IF IsThrow(v) THEN v
           ELSE JsObject(ObjSet(args, Head(arguments).name, v))
RECURSIVE EachArgument(_, _)
\* directiveNode.arguments.forEach(arg => args[arg.name.value] = ...)
EachArgument(arguments, args) ==
  IF arguments = <<>> THEN JsObject(args)
  ELSE LET v == valueFromASTUntyped(Head(arguments).value)
       IN  IF IsThrow(v) THEN v
           ELSE EachArgument(Tail(arguments),
                             ObjSet(args, Head(arguments).name, v))

(***************************************************************************)
(* getVisitors: the visitor instances of one node for one visitor method.  *)
(***************************************************************************)
NoError == [t |-> "none"]
NoResult == [t |-> "none"]

\* new visitorClass({name, args, visitedType, schema}); id is the identity of
\* the new object and occurrence the position of the directive it is for
NewVisitor(id, class, name, args, type, occurrence) ==
  [ id |-> id, class |-> class, name |-> name, args |-> args,
    visitedType |-> type, occurrence |-> occurrence ]

\* a mutation of CoerceArguments: the declaration is never consulted
CoerceArgumentsUntyped(directiveNode) ==
  EachArgument(directiveNode.arguments, EmptyObject)
\* a mutation of CoerceArguments: the declaration is looked up in the schema
\* at the time of the occurrence
CoerceArgumentsLive(directiveNode) ==
  LET live == [ name \in { schemaDirectives[i].name :
                             i \in 1..Len(schemaDirectives) } |->
                  schemaDirectives[
                    CHOOSE i \in 1..Len(schemaDirectives) :
                      /\ schemaDirectives[i].name = name
                      /\ \A j \in 1..Len(schemaDirectives) :
                           schemaDirectives[j].name = name => j <= i] ]
  IN  IF directiveNode.name \in DOMAIN live
      THEN getArgumentValues(live[directiveNode.name], directiveNode)
      ELSE EachArgument(directiveNode.arguments, EmptyObject)
\* the args of an occurrence: typed against its declaration when the schema
\* declares the directive, decoded untyped otherwise
CoerceArguments(directiveNode) ==
  IF directiveNode.name \in DOMAIN declaredDirectives
  THEN getArgumentValues(declaredDirectives[directiveNode.name], directiveNode)
  ELSE EachArgument(directiveNode.arguments, EmptyObject)

RECURSIVE EachDirectiveNodeLocated(_, _, _, _, _)
\* a mutation of EachDirectiveNode: an occurrence of a declared directive is
\* passed over when the declaration does not list the location of the node
EachDirectiveNodeLocated(directiveNodes, i, type, methodName, visitors) ==
  IF i > Len(directiveNodes) THEN [visitors |-> visitors, thrown |-> NoError]
  ELSE
    LET directiveNode == directiveNodes[i]
        directiveName == directiveNode.name
    IN  IF directiveName \notin DOMAIN directiveVisitors
        THEN EachDirectiveNodeLocated(directiveNodes, i + 1, type, methodName,
                                      visitors)
        ELSE IF \/ ~shouldCall(directiveVisitors[directiveName], methodName)
                \/ /\ directiveName \in DOMAIN declaredDirectives
                   /\ methodToLocationMap[methodName]
                        \notin declaredDirectives[directiveName].locations
        THEN EachDirectiveNodeLocated(directiveNodes, i + 1, type, methodName,
                                      visitors)
        ELSE
          LET args == CoerceArguments(directiveNode)
          IN  IF IsThrow(args) THEN [visitors |-> visitors, thrown |-> args]
              ELSE EachDirectiveNodeLocated(directiveNodes, i + 1, type,
                     methodName,
                     Append(visitors,
                       NewVisitor(Len(constructed) + Len(visitors) + 1,
                                  directiveVisitors[directiveName],
                                  directiveName, args, type, i)))
RECURSIVE EachDirectiveNode(_, _, _, _, _)
\* directiveNodes.forEach(directiveNode => ...) from position i on, with the
\* visitors pushed so far; ends with the list, or with the error thrown
EachDirectiveNode(directiveNodes, i, type, methodName, visitors) ==
  IF i > Len(directiveNodes) THEN [visitors |-> visitors, thrown |-> NoError]
  ELSE
    LET directiveNode == directiveNodes[i]
        directiveName == directiveNode.name
    IN  IF directiveName \notin DOMAIN directiveVisitors
        THEN EachDirectiveNode(directiveNodes, i + 1, type, methodName, visitors)
        ELSE IF ~shouldCall(directiveVisitors[directiveName], methodName)
        THEN EachDirectiveNode(directiveNodes, i + 1, type, methodName, visitors)
        ELSE
          LET args == CoerceArguments(directiveNode)
          IN  IF IsThrow(args) THEN [visitors |-> visitors, thrown |-> args]
              ELSE EachDirectiveNode(directiveNodes, i + 1, type, methodName,
                     Append(visitors,
                       NewVisitor(Len(constructed) + Len(visitors) + 1,
                                  directiveVisitors[directiveName],
                                  directiveName, args, type, i)))

\* a mutation of getVisitors: type.astNode.directives is read unguarded
getVisitorsNoGuard(type, methodName) ==
  IF astNode[type] = Undefined
  THEN [visitors |-> <<>>,
        thrown |-> Throw(<<"TypeError: Cannot read property 'directives'">>)]
  ELSE EachDirectiveNode(astNode[type].directives, 1, type, methodName, <<>>)
getVisitors(type, methodName) ==
  IF astNode[type] = Undefined THEN [visitors |-> <<>>, thrown |-> NoError]
  ELSE EachDirectiveNode(astNode[type].directives, 1, type, methodName, <<>>)

\* a mutation of PushAll: every visitor goes under the first one's name
PushAllFirstName(created, visitors) ==
  IF visitors = <<>> THEN created
  ELSE LET name == visitors[1].name
       IN  [created EXCEPT ![name] = @ \o visitors]
RECURSIVE PushAll(_, _)
\* visitors.forEach(visitor => createdVisitors[visitor.name].push(visitor))
PushAll(created, visitors) ==
  IF visitors = <<>> THEN created
  ELSE LET visitor == Head(visitors)
       IN  PushAll([created EXCEPT ![visitor.name] = Append(@, visitor)],
                   Tail(visitors))

\* d[methodName](type, ...additionalArgs): the call made and the function
\* it reaches
MethodCall(d, call) ==
  [ visitor |-> d.id, methodName |-> call.methodName, type |-> call.type,
    additionalArgs |-> call.additionalArgs,
    fn |-> PrototypeGet(d.class, call.methodName) ]

\* a mutation of NextVisitor: the last visitor of the list goes first
NextVisitorLast(visitors) == visitors[Len(visitors)]
\* the visitor forEach hands to the callback next
NextVisitor(visitors) == Head(visitors)
\* a mutation of RestVisitors: the visitor after d is passed over
RestVisitorsSkipNext(visitors, d) ==
  LET rest == SelectSeq(visitors, LAMBDA v : v.id # d.id)
  IN  IF rest = <<>> THEN rest ELSE Tail(rest)
\* the visitors forEach has not reached yet
RestVisitors(visitors, d) ==
  SelectSeq(visitors, LAMBDA v : v.id # d.id)

(***************************************************************************)
(* The inputs of a walk.                                                   *)
(***************************************************************************)
SeqsUpTo(S, n) == UNION { [1..k -> S] : k \in 0..n }

\* @auth, @auth(requires: USER), @length(min: [1, {a: null}], max: 50)
Occurrences ==
  { DirectiveNode("auth", <<>>),
    DirectiveNode("auth", << ArgumentNode("requires", EnumNode("USER")) >>),
    DirectiveNode("length",
      << ArgumentNode("min",
           ListNode(<< IntNode(<<"1">>),
                       ObjectNode(<< ObjectField("a", NullNode) >>) >>)),
         ArgumentNode("max", IntNode(<<"5", "0">>)) >>) }

\* directive @auth(requires: Role = ADMIN) on OBJECT | FIELD_DEFINITION
AuthDecl ==
  DirectiveDecl("auth",
    << ArgDefDefault("requires", "Role", JsString("ADMIN")) >>,
    {"OBJECT", "FIELD_DEFINITION"})
\* directive @auth(requires: Role) on OBJECT
AuthDeclNoDefault ==
  DirectiveDecl("auth", << ArgDef("requires", "Role") >>, {"OBJECT"})
\* directive @auth(requires: Role = ADMIN, level: Int) on OBJECT
AuthDeclLevel ==
  DirectiveDecl("auth",
    << ArgDefDefault("requires", "Role", JsString("ADMIN")),
       ArgDef("level", "Int") >>,
    {"OBJECT"})
\* directive @length(max: Int = 10) on FIELD_DEFINITION
LengthDecl ==
  DirectiveDecl("length", << ArgDefDefault("max", "Int", JsNumber(10, 1)) >>,
    {"FIELD_DEFINITION"})

\* directive @length(min: Int, max: Int = 10) on FIELD_DEFINITION
LengthDeclMin ==
  DirectiveDecl("length",
    << ArgDef("min", "Int"), ArgDefDefault("max", "Int", JsNumber(10, 1)) >>,
    {"FIELD_DEFINITION"})

\* what schema.getDirectives() may return
DeclarationLists ==
  { <<>>,
    << AuthDecl, LengthDecl >>,
    << AuthDeclNoDefault, AuthDeclLevel, LengthDeclMin >> }

\* what the caller may pass as directiveVisitors
VisitorTables ==
  { [auth |-> "EnumAuthVisitor", length |-> "AllVisitor"],
    [auth |-> "AllVisitor"] }

(***************************************************************************)
(* The walk, step by step.                                                 *)
(***************************************************************************)
Init ==
  /\ \E ds \in SeqsUpTo(Occurrences, MaxOccurrences), n1 \in Nodes, n2 \in Nodes :
       astNode = [n \in Nodes |->
                    IF n \in {n1, n2} THEN AstNode(ds)
                    ELSE IF n = SchemaNode THEN Undefined ELSE AstNode(<<>>)]
  /\ schemaDirectives \in DeclarationLists
  /\ directiveVisitors \in VisitorTables
  /\ pc = "start"
  /\ declaredDirectives = <<>>
  /\ createdVisitors = <<>>
  /\ callIdx = 0
  /\ pending = <<>>
  /\ constructed = <<>>
  /\ dispatched = <<>>
  /\ thrown = NoError
  /\ result = NoResult
  /\ valueNode = NullNode
  /\ decoded = Undefined
  /\ locations = InitialLocations
  /\ located = <<>>

\* schema.getDirectives().forEach(decl => declaredDirectives[decl.name] = decl)
DeclaredByName(decls) ==
  [ name \in { decls[i].name : i \in 1..Len(decls) } |->
      decls[CHOOSE i \in 1..Len(decls) :
              /\ decls[i].name = name
              /\ \A j \in 1..Len(decls) : decls[j].name = name => j <= i] ]

\* a mutation of EmptyLists: the declared directives get a list too
EmptyListsDeclaredToo(table) ==
  [ name \in DOMAIN table \cup DOMAIN DeclaredByName(schemaDirectives) |-> <<>> ]
\* Object.keys(directiveVisitors).forEach(name => createdVisitors[name] = [])
EmptyLists(table) == [ name \in DOMAIN table |-> <<>> ]

\* a mutation of Begin: the names the schema does not declare are deleted
\* from directiveVisitors
BeginUndeclaredDeleted ==
  /\ pc = "start"
  /\ pc' = "walking"
  /\ declaredDirectives' = DeclaredByName(schemaDirectives)
  /\ directiveVisitors' =
       [ name \in DOMAIN directiveVisitors
                   \cap DOMAIN DeclaredByName(schemaDirectives) |->
           directiveVisitors[name] ]
  /\ createdVisitors' = EmptyLists(directiveVisitors')
  /\ UNCHANGED << astNode, schemaDirectives, callIdx,
                  pending, constructed, dispatched, thrown, result,
                  valueNode, decoded, locations, located >>
\* visitSchema up to the call of visit(schema): the two local tables
Begin ==
  /\ pc = "start"
  /\ pc' = "walking"
  /\ declaredDirectives' = DeclaredByName(schemaDirectives)
  /\ createdVisitors' = EmptyLists(directiveVisitors)
  /\ UNCHANGED << astNode, schemaDirectives, directiveVisitors, callIdx,
                  pending, constructed, dispatched, thrown, result,
                  valueNode, decoded, locations, located >>

\* a mutation of GetVisitors: the walk only moves on from a node that has
\* visitors
GetVisitorsStaying ==
  /\ pc = "walking"
  /\ pending = <<>>
  /\ callIdx < Len(visit)
  /\ LET call == visit[callIdx + 1]
         got == getVisitors(call.type, call.methodName)
     IN  /\ constructed' = constructed \o got.visitors
         /\ IF got.thrown # NoError
            THEN /\ pc' = "thrown"
                 /\ thrown' = got.thrown
                 /\ UNCHANGED << createdVisitors, callIdx, pending >>
            ELSE /\ createdVisitors' = PushAll(createdVisitors, got.visitors)
                 /\ pending' = got.visitors
                 /\ callIdx' = IF got.visitors = <<>> THEN callIdx
                               ELSE callIdx + 1
                 /\ UNCHANGED << pc, thrown >>
  /\ UNCHANGED << astNode, schemaDirectives, directiveVisitors,
                  declaredDirectives, dispatched, result, valueNode, decoded,
                  locations, located >>
\* a mutation of GetVisitors: each visitor is registered as soon as it is
\* built, so also those built before an error
GetVisitorsRegisteringEarly ==
  /\ pc = "walking"
  /\ pending = <<>>
  /\ callIdx < Len(visit)
  /\ LET call == visit[callIdx + 1]
         got == getVisitors(call.type, call.methodName)
     IN  /\ constructed' = constructed \o got.visitors
         /\ createdVisitors' = PushAll(createdVisitors, got.visitors)
         /\ IF got.thrown # NoError
            THEN /\ pc' = "thrown"
                 /\ thrown' = got.thrown
                 /\ UNCHANGED << callIdx, pending >>
            ELSE /\ pending' = got.visitors
                 /\ callIdx' = callIdx + 1
                 /\ UNCHANGED << pc, thrown >>
  /\ UNCHANGED << astNode, schemaDirectives, directiveVisitors,
                  declaredDirectives, dispatched, result, valueNode, decoded,
                  locations, located >>
\* callVisitorMethods reaches its next node: getVisitors builds and registers
\* the node's visitors, or an error leaves visitSchema
GetVisitors ==
  /\ pc = "walking"
  /\ pending = <<>>
  /\ callIdx < Len(visit)
  /\ LET call == visit[callIdx + 1]
         got == getVisitors(call.type, call.methodName)
     IN  /\ constructed' = constructed \o got.visitors
         /\ IF got.thrown # NoError
            THEN /\ pc' = "thrown"
                 /\ thrown' = got.thrown
                 /\ UNCHANGED << createdVisitors, callIdx, pending >>
            ELSE /\ createdVisitors' = PushAll(createdVisitors, got.visitors)
                 /\ pending' = got.visitors
                 /\ callIdx' = callIdx + 1
                 /\ UNCHANGED << pc, thrown >>
  /\ UNCHANGED << astNode, schemaDirectives, directiveVisitors,
                  declaredDirectives, dispatched, result, valueNode, decoded, locations, located >>

\* the forEach of callVisitorMethods calls the method on the next visitor
Dispatch ==
  /\ pc = "walking"
  /\ pending # <<>>
  /\ LET d == NextVisitor(pending)
     IN  /\ dispatched' = Append(dispatched, MethodCall(d, visit[callIdx]))
         /\ pending' = RestVisitors(pending, d)
  /\ UNCHANGED << astNode, schemaDirectives, directiveVisitors, pc,
                  declaredDirectives, createdVisitors, callIdx, constructed,
                  thrown, result, valueNode, decoded, locations, located >>

\* visit(schema) is over: return createdVisitors
Return ==
  /\ pc = "walking"
  /\ pending = <<>>
  /\ callIdx = Len(visit)
  /\ pc' = "returned"
  /\ result' = [t |-> "map", map |-> createdVisitors]
  /\ UNCHANGED << astNode, schemaDirectives, directiveVisitors,
                  declaredDirectives, createdVisitors, callIdx, pending,
                  constructed, dispatched, thrown, valueNode, decoded, locations, located >>

Next == Begin \/ GetVisitors \/ Dispatch \/ Return

Spec == Init /\ [][Next]_vars

(***************************************************************************)
(* Properties of the walk (checked under Spec).                            *)
(***************************************************************************)
\* the occurrences on a node
OccurrencesOn(node) ==
  IF astNode[node] = Undefined THEN <<>> ELSE astNode[node].directives

RECURSIVE Subclasses(_)
\* a class and its superclasses, up to and without the base class
Subclasses(cls) ==
  IF cls \in {"none", BaseClass} THEN {}
  ELSE {cls} \cup Subclasses(Classes[cls].extends)

\* the class, or a superclass of it below the base class, defines the method
Overrides(cls, methodName) ==
  /\ methodName \in BaseMethods
  /\ \E c \in Subclasses(cls) : methodName \in Classes[c].own

\* the type that owns a field
OwnerOf(field) ==
  CHOOSE t \in DOMAIN NamedTypes :
    /\ "fields" \in DOMAIN NamedTypes[t]
    /\ \E i \in 1..Len(NamedTypes[t].fields) : NamedTypes[t].fields[i] = field

\* the visitor method of the kind of a node
KindMethodOf(node) ==
  CASE node = SchemaNode -> "visitSchema"
    [] node \in DOMAIN Arguments -> "visitArgumentDefinition"
    [] node \in EnumValueNodes -> "visitEnumValue"
    [] node \in DOMAIN Fields ->
         IF NamedTypes[OwnerOf(node)].class = "GraphQLInputObjectType"
         THEN "visitInputFieldDefinition" ELSE "visitFieldDefinition"
    [] node \in DOMAIN NamedTypes ->
         LET class == NamedTypes[node].class
         IN  CASE class = "GraphQLObjectType" -> "visitObject"
               [] class = "GraphQLInterfaceType" -> "visitInterface"
               [] class = "GraphQLInputObjectType" -> "visitInputObject"
               [] class = "GraphQLScalarType" -> "visitScalar"
               [] class = "GraphQLUnionType" -> "visitUnion"
               [] class = "GraphQLEnumType" -> "visitEnum"

KindMethodTable == [ node \in Nodes |-> KindMethodOf(node) ]
KindMethod(node) == KindMethodTable[node]

OverridesTable ==
  [ cls \in ClassNames |-> { m \in BaseMethods : Overrides(cls, m) } ]

\* the nodes whose visitors getVisitors has returned so far
ResolvedNodes == { visit[k].type : k \in 1..callIdx }

\* occurrence i of the node has a registered name whose class overrides the
\* method of the node's kind
Matches(node, i) ==
  LET name == OccurrencesOn(node)[i].name
  IN  /\ name \in DOMAIN directiveVisitors
      /\ KindMethod(node) \in OverridesTable[directiveVisitors[name]]

InstancesFor(node, i) ==
  { k \in 1..Len(constructed) :
      constructed[k].visitedType = node /\ constructed[k].occurrence = i }

CallsOf(id) == { p \in 1..Len(dispatched) : dispatched[p].visitor = id }

\* C2: when the walk has completed, the instances are pairwise distinct and
\* no two of them are of the same occurrence; each instance received exactly
\* one call, on the node it was created for, through the method of that
\* node's kind; and every call made was made on an instance.
C2_OneInstanceOneCall ==
  pc = "returned" =>
    /\ \A j, k \in 1..Len(constructed) :
         j # k =>
           /\ constructed[j].id # constructed[k].id
           /\ << constructed[j].visitedType, constructed[j].occurrence >>
                # << constructed[k].visitedType, constructed[k].occurrence >>
    /\ \A k \in 1..Len(constructed) :
         LET v == constructed[k]
         IN  /\ Cardinality(CallsOf(v.id)) = 1
             /\ \A p \in CallsOf(v.id) :
                  /\ dispatched[p].type = v.visitedType
                  /\ dispatched[p].methodName = KindMethod(v.visitedType)
    /\ \A p \in 1..Len(dispatched) :
         \E k \in 1..Len(constructed) : constructed[k].id = dispatched[p].visitor

\* a completed walk with two instances of the same name on the same node
C2_Witness ==
  /\ pc = "returned"
  /\ \E j, k \in 1..Len(constructed) :
       /\ j # k
       /\ constructed[j].name = constructed[k].name
       /\ constructed[j].visitedType = constructed[k].visitedType

\* the instance a call was made on
Receiver(p) ==
  constructed[CHOOSE k \in 1..Len(constructed) :
                constructed[k].id = dispatched[p].visitor]

\* C3: the calls made on the instances of one node follow the order of the
\* occurrences on the node: of two calls on the same node, the earlier one is
\* on the instance of the earlier occurrence; and while an instance of a node
\* still waits for its call, no instance of a later occurrence has been called.
C3_OccurrenceOrder ==
  /\ \A p, q \in 1..Len(dispatched) :
       (p < q /\ dispatched[p].type = dispatched[q].type) =>
         Receiver(p).occurrence < Receiver(q).occurrence
  /\ \A w \in 1..Len(pending) :
       \A p \in 1..Len(dispatched) :
         dispatched[p].type = pending[w].visitedType =>
           Receiver(p).occurrence < pending[w].occurrence

\* two calls have been made on instances of one node
C3_Witness ==
  \E p, q \in 1..Len(dispatched) :
    /\ p < q
    /\ dispatched[p].type = dispatched[q].type
    /\ Receiver(p).name # Receiver(q).name

\* C4: the mapping returned holds under each name exactly the instances
\* created for occurrences of that name, each once, in the order of their
\* creation; every instance is under the name of its own occurrence only.
C4_ResultByName ==
  pc = "returned" =>
    /\ result.t = "map"
    /\ \A name \in DOMAIN result.map :
         result.map[name] = SelectSeq(constructed, LAMBDA v : v.name = name)
    /\ \A k \in 1..Len(constructed) :
         LET v == constructed[k]
             own == OccurrencesOn(v.visitedType)[v.occurrence].name
         IN  \A name \in DOMAIN result.map :
               (\E p \in 1..Len(result.map[name]) : result.map[name][p].id = v.id)
                 <=> name = own

\* a mapping was returned with two instances from different nodes under one
\* name and an instance under another name
C4_Witness ==
  /\ pc = "returned"
  /\ \E a, b \in DOMAIN result.map :
       /\ a # b
       /\ Len(result.map[a]) >= 2
       /\ result.map[a][1].visitedType # result.map[a][2].visitedType
       /\ Len(result.map[b]) >= 1

NoOccurrences == \A node \in Nodes : OccurrencesOn(node) = <<>>

\* C5: the mapping returned has exactly the keys of the handler table; when
\* the schema has no occurrence at all, the walk does not fail, can always
\* go on until it returns, and returns an empty list under every key.
C5_ResultKeys ==
  /\ pc = "returned" => DOMAIN result.map = DOMAIN directiveVisitors
  /\ NoOccurrences =>
       /\ pc # "thrown"
       /\ pc # "returned" => ENABLED Next
       /\ pc = "returned" => \A name \in DOMAIN result.map : result.map[name] = <<>>

\* a walk of a schema without occurrences, declaring a directive the table
\* has no class for, has returned
C5_Witness ==
  /\ pc = "returned"
  /\ NoOccurrences
  /\ DOMAIN declaredDirectives \ DOMAIN directiveVisitors # {}
  /\ \A name \in DOMAIN directiveVisitors : result.map[name] = <<>>

\* the occurrence an instance was created for
OccurrenceOf(v) == OccurrencesOn(v.visitedType)[v.occurrence]

Supplies(directiveNode, name) ==
  \E i \in 1..Len(directiveNode.arguments) :
    directiveNode.arguments[i].name = name

\* the parameters a declaration declares
DeclaredParams(decl) == { decl.args[i] : i \in 1..Len(decl.args) }

\* the value a typed instance carries for a declared parameter is the
\* supplied literal coerced through the declared type, or else the default
TypedValueBound(v, def) ==
  ObjGet(v.args.props, def.name) =
    IF Supplies(OccurrenceOf(v), def.name)
    THEN CoerceThroughType(def.type,
           ArgumentNamed(OccurrenceOf(v).arguments, def.name).value)
    ELSE def.defaultValue

TypedInstances ==
  { k \in 1..Len(constructed) : constructed[k].name \in DOMAIN declaredDirectives }

UntypedInstances ==
  { k \in 1..Len(constructed) :
      constructed[k].name \notin DOMAIN declaredDirectives }

\* C7: the arguments of an instance of an undeclared directive have exactly
\* the parameter names the occurrence supplies, each once, each bound to the
\* decoder's result for the (last) literal supplied under that name.
C7_UntypedArguments ==
  \A k \in UntypedInstances :
    LET v == constructed[k]
        arguments == OccurrenceOf(v).arguments
    IN  /\ v.args.t = "object"
        /\ ObjKeys(v.args.props)
             = { arguments[i].name : i \in 1..Len(arguments) }
        /\ Len(v.args.props) = Cardinality(ObjKeys(v.args.props))
        /\ \A name \in ObjKeys(v.args.props) :
             ObjGet(v.args.props, name)
               = valueFromASTUntyped(ArgumentNamed(arguments, name).value)

\* @length(min: [1, {a: null}], max: 50) with no @length declared
C7_Witness ==
  \E k \in UntypedInstances :
    /\ constructed[k].name = "length"
    /\ constructed[k].args
         = JsObject(<< [key |-> "min",
                        val |-> JsArray(<< JsNumber(1, 1),
                                  JsObject(<< [key |-> "a", val |-> JsNull] >>) >>)],
                       [key |-> "max", val |-> JsNumber(50, 1)] >>)

(***************************************************************************)
(* The decoder on its own: valueFromASTUntyped applied to one literal.     *)
(***************************************************************************)
RECURSIVE DecimalTexts(_)
\* the texts of exactly n digits
DecimalTexts(n) ==
  IF n = 0 THEN { <<>> }
  ELSE { <<DigitChars[i]>> \o t : i \in 1..10, t \in DecimalTexts(n - 1) }

\* the texts an IntValue token can have: -?(0|[1-9][0-9]*), up to MaxDigits
IntTexts ==
  LET plain == { t \in UNION { DecimalTexts(n) : n \in 1..MaxDigits } :
                   Len(t) = 1 \/ Head(t) # "0" }
  IN  plain \cup { <<"-">> \o t : t \in plain }

LeafNodes ==
  { NullNode, IntNode(<<"7">>), IntNode(<<"-", "1", "2">>),
    FloatNode(<<"1", ".", "5", "0">>), StringNode("x"), EnumNode("USER"),
    BooleanNode(TRUE), VariableNode("v") }

FieldNames == {"a", "b"}

RECURSIVE NodesOfSize(_)
RECURSIVE NodeSeqsOfSize(_)
RECURSIVE FieldSeqsOfSize(_)
\* the sequences of literals made of n AST nodes in all
NodeSeqsOfSize(n) ==
  IF n = 0 THEN { <<>> }
  ELSE UNION { { <<h>> \o t : h \in NodesOfSize(k), t \in NodeSeqsOfSize(n - k) } :
               k \in 1..n }
\* the sequences of object fields whose values are made of n AST nodes in all
FieldSeqsOfSize(n) ==
  IF n = 0 THEN { <<>> }
  ELSE UNION { { << ObjectField(f, h) >> \o t :
                   f \in FieldNames, h \in NodesOfSize(k),
                   t \in FieldSeqsOfSize(n - k) } : k \in 1..n }
\* the literals made of exactly n AST nodes
NodesOfSize(n) ==
  IF n = 1 THEN LeafNodes \cup { ListNode(<<>>), ObjectNode(<<>>) }
  ELSE { ListNode(vs) : vs \in NodeSeqsOfSize(n - 1) }
         \cup { ObjectNode(fs) : fs \in FieldSeqsOfSize(n - 1) }

ValueNodes ==
  UNION { NodesOfSize(n) : n \in 1..MaxNodes }
    \cup { IntNode(t) : t \in IntTexts }

InitDecode ==
  /\ valueNode \in ValueNodes
  /\ decoded = Undefined
  /\ astNode = [n \in Nodes |-> Undefined]
  /\ schemaDirectives = <<>>
  /\ directiveVisitors = <<>>
  /\ pc = "idle"
  /\ declaredDirectives = <<>>
  /\ createdVisitors = <<>>
  /\ callIdx = 0
  /\ pending = <<>>
  /\ constructed = <<>>
  /\ dispatched = <<>>
  /\ thrown = NoError
  /\ result = NoResult
  /\ locations = InitialLocations
  /\ located = <<>>

\* one call valueFromASTUntyped(valueNode)
Decode ==
  /\ pc = "idle"
  /\ decoded = Undefined
  /\ decoded' = valueFromASTUntyped(valueNode)
  /\ UNCHANGED << valueNode, walkVars, locations, located >>

SpecDecode == InitDecode /\ [][Decode]_vars

(***************************************************************************)
(* Properties of the decoder (checked under SpecDecode).                   *)
(***************************************************************************)
Decoded == pc = "idle" /\ decoded # Undefined

RECURSIVE ToDecimal(_)
\* the decimal text of a natural number
ToDecimal(n) ==
  IF n < 10 THEN << DigitChars[n + 1] >>
  ELSE ToDecimal(n \div 10) \o << DigitChars[(n % 10) + 1] >>

\* the decimal text denotes the integer n
Denotes(text, n) ==
  IF Head(text) = "-" THEN n <= 0 /\ text = <<"-">> \o ToDecimal(-n)
  ELSE n >= 0 /\ text = ToDecimal(n)

RECURSIVE ListDecoded(_, _)
\* v is an array as long as the list literal, its i-th element is the decoded
\* i-th element of the literal, and the same holds of the lists inside it
ListDecoded(node, v) ==
  node.kind = KindLIST =>
    /\ v.t = "array"
    /\ Len(v.items) = Len(node.values)
    /\ \A i \in 1..Len(node.values) :
         /\ v.items[i] = valueFromASTUntyped(node.values[i])
         /\ ListDecoded(node.values[i], v.items[i])

\* C9: a list literal decodes to a sequence of the same length whose i-th
\* element is the decoded i-th element, at every nesting depth; the decoding
\* fails exactly when the decoding of some element fails.
C9_ListValues ==
  (Decoded /\ valueNode.kind = KindLIST) =>
    /\ IsThrow(decoded) <=>
         \E i \in 1..Len(valueNode.values) :
           IsThrow(valueFromASTUntyped(valueNode.values[i]))
    /\ ~IsThrow(decoded) => ListDecoded(valueNode, decoded)

C9_Witness ==
  /\ Decoded
  /\ valueNode = ListNode(<< ListNode(<<>>), IntNode(<<"7">>) >>)
  /\ decoded = JsArray(<< JsArray(<<>>), JsNumber(7, 1) >>)

\* the position of the last field of the literal with the given name
LastField(fields, name) ==
  CHOOSE i \in 1..Len(fields) :
    /\ fields[i].name = name
    /\ \A j \in 1..Len(fields) : fields[j].name = name => j <= i

\* C10: an object literal decodes to a mapping whose keys are exactly the
\* distinct field names of the literal, each key once, bound to the decoded
\* value of the last field of that name.
C10_ObjectValues ==
  (Decoded /\ valueNode.kind = KindOBJECT /\ ~IsThrow(decoded)) =>
    LET fields == valueNode.fields
    IN  /\ decoded.t = "object"
        /\ ObjKeys(decoded.props) = { fields[i].name : i \in 1..Len(fields) }
        /\ Len(decoded.props) = Cardinality(ObjKeys(decoded.props))
        /\ \A k \in ObjKeys(decoded.props) :
             ObjGet(decoded.props, k)
               = valueFromASTUntyped(fields[LastField(fields, k)].value)

C10_Witness ==
  /\ Decoded
  /\ valueNode = ObjectNode(<< ObjectField("a", IntNode(<<"7">>)),
                               ObjectField("a", NullNode) >>)
  /\ decoded = JsObject(<< [key |-> "a", val |-> JsNull] >>)

(***************************************************************************)
(* Walks that may fail: occurrences carrying a literal of a kind the       *)
(* decoder does not list, declarations the occurrences do not fit, and     *)
(* visitor classes that override one field method only.                    *)
(***************************************************************************)
\* @auth(requires: USER, level: 1), @length(max: 50),
\* @length(max: 50, opts: [{a: $v}])
AbortOccurrences ==
  { DirectiveNode("auth",
      << ArgumentNode("requires", EnumNode("USER")),
         ArgumentNode("level", IntNode(<<"1">>)) >>),
    DirectiveNode("length", << ArgumentNode("max", IntNode(<<"5", "0">>)) >>),
    DirectiveNode("length",
      << ArgumentNode("max", IntNode(<<"5", "0">>)),
         ArgumentNode("opts",
           ListNode(<< ObjectNode(<< ObjectField("a", VariableNode("v")) >>)
                    >>)) >>) }

\* directive @auth(requires: Role, scope: Role) on FIELD_DEFINITION
AuthDeclScope ==
  DirectiveDecl("auth",
    << ArgDef("requires", "Role"), ArgDef("scope", "Role") >>,
    {"FIELD_DEFINITION"})
\* directive @auth(requires: Int) on FIELD_DEFINITION
AuthDeclInt ==
  DirectiveDecl("auth", << ArgDef("requires", "Int") >>, {"FIELD_DEFINITION"})

AbortDeclarationLists == { <<>>, << AuthDeclScope >>, << AuthDeclInt >> }

AbortVisitorTables ==
  { [auth |-> "EnumAuthVisitor", length |-> "FieldVisitor"],
    [auth |-> "InputFieldVisitor"] }

InitAbort ==
  /\ \E ds \in SeqsUpTo(AbortOccurrences, MaxOccurrences),
        n1 \in Nodes, n2 \in Nodes :
       astNode = [n \in Nodes |->
                    IF n \in {n1, n2} THEN AstNode(ds)
                    ELSE IF n = SchemaNode THEN Undefined ELSE AstNode(<<>>)]
  /\ schemaDirectives \in AbortDeclarationLists
  /\ directiveVisitors \in AbortVisitorTables
  /\ pc = "start"
  /\ declaredDirectives = <<>>
  /\ createdVisitors = <<>>
  /\ callIdx = 0
  /\ pending = <<>>
  /\ constructed = <<>>
  /\ dispatched = <<>>
  /\ thrown = NoError
  /\ result = NoResult
  /\ valueNode = NullNode
  /\ decoded = Undefined
  /\ locations = InitialLocations
  /\ located = <<>>

SpecAbort == InitAbort /\ [][Next]_vars

(***************************************************************************)
(* Properties of failing walks (checked under SpecAbort).                  *)
(***************************************************************************)
SupportedKinds ==
  { KindNULL, KindINT, KindFLOAT, KindSTRING, KindENUM, KindBOOLEAN,
    KindLIST, KindOBJECT }

RECURSIVE HasUnsupported(_)
\* the literal is, or holds at any depth, a literal of an unlisted kind
HasUnsupported(node) ==
  CASE node.kind = KindLIST ->
         \E i \in 1..Len(node.values) : HasUnsupported(node.values[i])
    [] node.kind = KindOBJECT ->
         \E i \in 1..Len(node.fields) : HasUnsupported(node.fields[i].value)
    [] OTHER -> node.kind \notin SupportedKinds

\* the occurrence has an argument holding a literal of an unlisted kind
OccurrenceUnsupported(directiveNode) ==
  \E i \in 1..Len(directiveNode.arguments) :
    HasUnsupported(directiveNode.arguments[i].value)

\* occurrence i of the node is one the untyped decoder is run on
IsDecoded(node, i) ==
  /\ Matches(node, i)
  /\ OccurrencesOn(node)[i].name \notin DOMAIN declaredDirectives

\* the decoder is run on an unsupported literal when the node is resolved
MeetsUnsupported(node) ==
  \E i \in 1..Len(OccurrencesOn(node)) :
    IsDecoded(node, i) /\ OccurrenceUnsupported(OccurrencesOn(node)[i])

\* the walk is about to resolve the visitors of its next node
AtNextNode == pc = "walking" /\ pending = <<>> /\ callIdx < Len(visit)

IsDecodeError(e) ==
  /\ IsThrow(e)
  /\ Len(e.message) >= 1
  /\ e.message[1] = "Unexpected value kind: "

\* C11: a step that resolves a node on which the decoder meets a literal of
\* an unlisted kind ends the walk with an error: nothing is dispatched or
\* registered by that step, no result is returned, and no step follows an
\* abort (no later node is visited, no handler is called, nothing returns).
C11_AbortOnUnsupported ==
  [][ /\ (AtNextNode /\ MeetsUnsupported(visit[callIdx + 1].type)) =>
           /\ pc' = "thrown"
           /\ IsThrow(thrown')
           /\ result' = NoResult
           /\ dispatched' = dispatched
           /\ createdVisitors' = createdVisitors
           /\ callIdx' = callIdx
      /\ pc # "thrown" ]_vars

\* a walk aborted on a literal nested in a list and an object, with a later
\* node whose occurrences, one of them to be decoded, were never looked at
C11_Witness ==
  /\ pc = "thrown"
  /\ thrown = UnexpectedKind(VariableNode("v"))
  /\ result = NoResult
  /\ \E k \in (callIdx + 2)..Len(visit) :
       \E i \in 1..Len(OccurrencesOn(visit[k].type)) :
         IsDecoded(visit[k].type, i)

\* the parts an error message is put together from
MessageParts(e) == { e.message[k] : k \in 1..Len(e.message) }

RECURSIVE UnsupportedKinds(_)
\* the unlisted kinds met in a literal, at any depth
UnsupportedKinds(node) ==
  CASE node.kind = KindLIST ->
         UNION { UnsupportedKinds(node.values[i]) : i \in 1..Len(node.values) }
    [] node.kind = KindOBJECT ->
         UNION { UnsupportedKinds(node.fields[i].value) :
                 i \in 1..Len(node.fields) }
    [] OTHER -> IF node.kind \in SupportedKinds THEN {} ELSE {node.kind}

\* the node whose visitors were being resolved when the walk was left
FailedNode == visit[callIdx + 1].type

\* the occurrences of the failed node the decoder fails on
FailedOccurrences ==
  { i \in 1..Len(OccurrencesOn(FailedNode)) :
      IsDecoded(FailedNode, i)
        /\ OccurrenceUnsupported(OccurrencesOn(FailedNode)[i]) }

\* C12 as stated: the decode error that leaves visitSchema carries the name
\* of the offending occurrence and the name of the node it is attached to.
C12_ErrorNamesOccurrence ==
  (pc = "thrown" /\ IsDecodeError(thrown)) =>
    \E i \in FailedOccurrences :
      /\ OccurrencesOn(FailedNode)[i].name \in MessageParts(thrown)
      /\ FailedNode \in MessageParts(thrown)

\* C12 as amended: the decode error that leaves visitSchema carries the kind
\* of the offending literal and nothing else: its message is 'Unexpected
\* value kind: ' followed by that kind, and names neither the occurrence nor
\* the node.
C12_ErrorNamesKindOnly ==
  (pc = "thrown" /\ IsDecodeError(thrown)) =>
    /\ \E i \in FailedOccurrences :
         \E a \in 1..Len(OccurrencesOn(FailedNode)[i].arguments) :
           \E kind \in
               UnsupportedKinds(OccurrencesOn(FailedNode)[i].arguments[a].value) :
             thrown.message = << "Unexpected value kind: ", kind >>
    /\ \A i \in 1..Len(OccurrencesOn(FailedNode)) :
         OccurrencesOn(FailedNode)[i].name \notin MessageParts(thrown)
    /\ FailedNode \notin MessageParts(thrown)

\* the walk was left at field Query.me with the decode error of @length
C12_Witness ==
  /\ pc = "thrown"
  /\ IsDecodeError(thrown)
  /\ FailedNode = "Query_me"
  /\ \E i \in FailedOccurrences : OccurrencesOn(FailedNode)[i].name = "length"
  /\ thrown.message = << "Unexpected value kind: ", KindVARIABLE >>

\* occurrence i of the node is coerced against a declaration that the
\* coercion of the declared types rejects
IsRejected(node, i) ==
  LET directiveNode == OccurrencesOn(node)[i]
  IN  /\ Matches(node, i)
      /\ directiveNode.name \in DOMAIN declaredDirectives
      /\ IsThrow(getArgumentValues(declaredDirectives[directiveNode.name],
                                   directiveNode))

\* C13: a walk is left with an error only while resolving a node that has a
\* dispatched occurrence the decoder fails on (the error is then the decode
\* error) or one the declared types' coercion rejects (the error is then
\* that coercion's); unregistered names, classes that do not override the
\* method, nodes without annotations and typed occurrences that leave out a
\* declared parameter or supply an undeclared one raise nothing.
C13_OnlyDecodeError ==
  pc = "thrown" =>
    /\ IsThrow(thrown)
    /\ callIdx < Len(visit)
    /\ IF IsDecodeError(thrown)
       THEN FailedOccurrences # {}
       ELSE \E i \in 1..Len(OccurrencesOn(FailedNode)) :
              /\ IsRejected(FailedNode, i)
              /\ thrown = getArgumentValues(
                            declaredDirectives[OccurrencesOn(FailedNode)[i].name],
                            OccurrencesOn(FailedNode)[i])

\* a walk has returned although the schema node has no annotations, an
\* occurrence has an unregistered name, one has a class that does not
\* override the method, and a typed one leaves out the declared parameter
\* scope and supplies the undeclared parameter level
C13_Witness ==
  /\ pc = "returned"
  /\ astNode[SchemaNode] = Undefined
  /\ \E node \in Nodes :
       \E i \in 1..Len(OccurrencesOn(node)) :
         OccurrencesOn(node)[i].name \notin DOMAIN directiveVisitors
  /\ \E node \in ResolvedNodes :
       \E i \in 1..Len(OccurrencesOn(node)) :
         /\ OccurrencesOn(node)[i].name \in DOMAIN directiveVisitors
         /\ ~Matches(node, i)
  /\ \E k \in 1..Len(constructed) :
       /\ constructed[k].name \in DOMAIN declaredDirectives
       /\ declaredDirectives[constructed[k].name] = AuthDeclScope
       /\ Supplies(OccurrenceOf(constructed[k]), "level")
       /\ ~Supplies(OccurrenceOf(constructed[k]), "scope")

(***************************************************************************)
(* Properties of the order and coverage of the walk (checked under Spec).  *)
(***************************************************************************)
\* the callVisitorMethods calls made so far on a node
VisitsOf(node) == { k \in 1..callIdx : visit[k].type = node }

\* the name is reserved: its first two characters are underscores
Reserved(name) == Len(name) >= 2 /\ name[1] = "_" /\ name[2] = "_"

\* the fields, arguments, input fields and enum values of the schema
ChildNodes == DOMAIN Fields \cup DOMAIN Arguments \cup EnumValueNodes

\* C14: every named type of the type map whose name does not start with
\* '__' is visited at most once during the walk and exactly once when the
\* walk has returned, whatever refers to it; a type whose name starts with
\* '__' is never visited; no field, argument, input field or enum value is
\* visited more than once, and none of their instances is called twice.
C14_VisitedOnce ==
  /\ \A e \in 1..Len(typeMap) :
       IF Reserved(typeMap[e].name)
       THEN VisitsOf(typeMap[e].type) = {}
       ELSE /\ Cardinality(VisitsOf(typeMap[e].type)) <= 1
            /\ pc = "returned" => Cardinality(VisitsOf(typeMap[e].type)) = 1
  /\ \A node \in ChildNodes : Cardinality(VisitsOf(node)) <= 1
  /\ \A p, q \in 1..Len(dispatched) :
       (p # q /\ dispatched[p].type \in ChildNodes) =>
         dispatched[p].visitor # dispatched[q].visitor

\* a returned walk over occurrences on the scalar _Any, which a field and an
\* argument refer to, and on __Type, which a union lists: _Any got its
\* instances called, __Type got none
C14_Witness ==
  /\ pc = "returned"
  /\ OccurrencesOn("_Any") # <<>>
  /\ OccurrencesOn("__Type") # <<>>
  /\ \E p \in 1..Len(dispatched) : dispatched[p].type = "_Any"
  /\ \A k \in 1..Len(constructed) : constructed[k].visitedType # "__Type"
  /\ Cardinality(VisitsOf("_Any")) = 1

\* the union types of the schema and the members a union lists
UnionTypes ==
  { t \in DOMAIN NamedTypes : NamedTypes[t].class = "GraphQLUnionType" }
MembersOf(union) ==
  { NamedTypes[union].types[i] : i \in 1..Len(NamedTypes[union].types) }

InstancesOn(node) ==
  { k \in 1..Len(constructed) : constructed[k].visitedType = node }
MatchesOn(node) ==
  { i \in 1..Len(OccurrencesOn(node)) : Matches(node, i) }

\* the entry of the type map that holds the type
EntryOf(type) == CHOOSE e \in 1..Len(typeMap) : typeMap[e].type = type

\* C15: the calls made on a union are calls of visitUnion on the union's
\* own instances, without context; a member type of a union has exactly the
\* instances of its own entry in the type map: never more than one per
\* dispatched occurrence, exactly one each once that entry was visited, and
\* none if its name starts with '__'; the walk does not go from the union
\* to a member.
C15_UnionOwnOnly ==
  \A union \in UnionTypes :
    /\ \A p \in 1..Len(dispatched) :
         dispatched[p].type = union =>
           /\ dispatched[p].methodName = "visitUnion"
           /\ dispatched[p].additionalArgs = <<>>
           /\ Receiver(p).visitedType = union
    /\ \A member \in MembersOf(union) :
         /\ Cardinality(InstancesOn(member)) <= Cardinality(MatchesOn(member))
         /\ VisitsOf(member) # {} =>
              Cardinality(InstancesOn(member)) = Cardinality(MatchesOn(member))
         /\ Reserved(typeMap[EntryOf(member)].name) =>
              VisitsOf(member) = {} /\ InstancesOn(member) = {}
         /\ \A k \in VisitsOf(union) :
              k < Len(visit) => visit[k + 1].type \notin MembersOf(union)

\* a returned walk over occurrences on the union Result and on its member
\* Query, both with instances called
C15_Witness ==
  /\ pc = "returned"
  /\ \E p \in 1..Len(dispatched) : dispatched[p].type = "Result"
  /\ \E p \in 1..Len(dispatched) : dispatched[p].type = "Query"
  /\ "Query" \in MembersOf("Result")
  /\ Cardinality(InstancesOn("Query")) = Cardinality(MatchesOn("Query"))

(***************************************************************************)
(* getLocations on its own: calls on the classes, in any order.            *)
(***************************************************************************)
\* getLocations() calls made in one run
MaxCalls == 3

InitClasses ==
  /\ locations = InitialLocations
  /\ located = <<>>
  /\ pc = "classes"
  /\ astNode = [n \in Nodes |-> Undefined]
  /\ schemaDirectives = <<>>
  /\ directiveVisitors = <<>>
  /\ declaredDirectives = <<>>
  /\ createdVisitors = <<>>
  /\ callIdx = 0
  /\ pending = <<>>
  /\ constructed = <<>>
  /\ dispatched = <<>>
  /\ thrown = NoError
  /\ result = NoResult
  /\ valueNode = NullNode
  /\ decoded = Undefined

\* one call cls.getLocations()
GetLocations(cls) ==
  /\ pc = "classes"
  /\ Len(located) < MaxCalls
  /\ LET memo == IF StaticGet(locations, cls) = JsNull
                 THEN JsArray(PushLocations(cls, PrototypeKeys(cls)))
                 ELSE StaticGet(locations, cls)
     IN  /\ locations' = IF StaticGet(locations, cls) = JsNull
                         THEN [locations EXCEPT ![cls] = memo]
                         ELSE locations
         /\ located' = Append(located, [class |-> cls, returned |-> memo])
  /\ UNCHANGED << walkVars, valueNode, decoded >>

NextClasses == \E cls \in ClassNames : GetLocations(cls)

SpecClasses == InitClasses /\ [][NextClasses]_vars

\* the locations of the visitor methods a class overrides
OverriddenLocations(cls) ==
  { methodToLocationMap[m] : m \in OverridesTable[cls] }

\* the elements of a list
Elements(xs) == { xs[i] : i \in 1..Len(xs) }

\* C16: every getLocations() call, whatever calls came before it, returns
\* exactly the locations of the visitor methods its class overrides.
C16_LocationsPerClass ==
  \A k \in 1..Len(located) :
    /\ located[k].returned.t = "array"
    /\ Elements(located[k].returned.items)
         = OverriddenLocations(located[k].class)

\* C17: no step of visitSchema changes the caller's table directiveVisitors:
\* from the call to its return or to the error that leaves it, the table
\* has the same keys bound to the same classes.
C17_TableUnchanged == [][directiveVisitors' = directiveVisitors]_vars

\* a walk aborted after an instance was called on an earlier node and
\* another one was built on the node the walk failed at
C17_Witness ==
  /\ pc = "thrown"
  /\ dispatched # <<>>
  /\ directiveVisitors = [auth |-> "EnumAuthVisitor", length |-> "FieldVisitor"]
  /\ \E k \in 1..Len(constructed) : constructed[k].visitedType = FailedNode

(***************************************************************************)
(* Termination.  visitSchema is one synchronous call: as long as a step    *)
(* of it can be taken, one is taken.                                       *)
(***************************************************************************)
\* nodes on the reference cycles of the schema: Filter.max is of type
\* Filter; Query.all is of the union Result, which lists Query
CycleNodes == {"Filter_max", "Query_all"}

\* the inputs of InitAbort, one of the annotated nodes being on a cycle
InitTerminate ==
  /\ \E ds \in SeqsUpTo(AbortOccurrences, MaxOccurrences),
        n1 \in Nodes, n2 \in CycleNodes :
       astNode = [n \in Nodes |->
                    IF n \in {n1, n2} THEN AstNode(ds)
                    ELSE IF n = SchemaNode THEN Undefined ELSE AstNode(<<>>)]
  /\ schemaDirectives \in AbortDeclarationLists
  /\ directiveVisitors \in AbortVisitorTables
  /\ pc = "start"
  /\ declaredDirectives = <<>>
  /\ createdVisitors = <<>>
  /\ callIdx = 0
  /\ pending = <<>>
  /\ constructed = <<>>
  /\ dispatched = <<>>
  /\ thrown = NoError
  /\ result = NoResult
  /\ valueNode = NullNode
  /\ decoded = Undefined
  /\ locations = InitialLocations
  /\ located = <<>>

SpecTerminate == InitTerminate /\ [][Next]_vars /\ WF_vars(Next)

\* the named types a field or an argument refers to, and the union members
RefersTo(node) ==
  IF node \in DOMAIN Fields THEN {Fields[node].type}
  ELSE IF node \in DOMAIN Arguments THEN {Arguments[node].type}
  ELSE IF node \in UnionTypes THEN MembersOf(node)
  ELSE {}

\* C18: every walk ends: visitSchema returns, or is left with an error.
C18_Terminates == <>(pc \in {"returned", "thrown"})

\* a returned walk of a schema whose types refer to each other in cycles,
\* with an instance called on a node of a cycle
C18_Witness ==
  /\ pc = "returned"
  /\ "Filter" \in RefersTo("Filter_max")
  /\ "Result" \in RefersTo("Query_all") /\ "Query" \in RefersTo("Result")
  /\ \E p \in 1..Len(dispatched) : dispatched[p].type \in CycleNodes

(***************************************************************************)
(* The order of the calls inside a type (checked under Spec).              *)
(***************************************************************************)
\* the fields, input fields or enum values of a type and the arguments of a
\* field, in declaration order
ChildrenOf(node) ==
  IF node \in DOMAIN NamedTypes
  THEN IF "fields" \in DOMAIN NamedTypes[node] THEN NamedTypes[node].fields
       ELSE IF "values" \in DOMAIN NamedTypes[node]
       THEN NamedTypes[node].values
       ELSE <<>>
  ELSE IF node \in DOMAIN Fields /\ "args" \in DOMAIN Fields[node]
  THEN Fields[node].args
  ELSE <<>>

ParentOf(node) ==
  CHOOSE parent \in Nodes :
    \E i \in 1..Len(ChildrenOf(parent)) : ChildrenOf(parent)[i] = node

IndexOf(node) ==
  CHOOSE i \in 1..Len(ChildrenOf(ParentOf(node))) :
    ChildrenOf(ParentOf(node))[i] = node

RECURSIVE Lineage(_)
\* a node, its owner and its owner's owner
Lineage(node) ==
  IF node \in ChildNodes THEN {node} \cup Lineage(ParentOf(node)) ELSE {node}

\* a comes before b in the pre-order of declarations: a owns b, or a is, or
\* is owned by, an earlier sibling of b or of an owner of b
ComesBefore(a, b) ==
  /\ a # b
  /\ \/ a \in Lineage(b)
     \/ \E x \in Lineage(a) \cap ChildNodes, y \in Lineage(b) \cap ChildNodes :
          /\ ParentOf(x) = ParentOf(y)
          /\ IndexOf(x) < IndexOf(y)
          /\ y \notin Lineage(a)

PreOrder == { ab \in Nodes \X Nodes : ComesBefore(ab[1], ab[2]) }

\* C19: inside a type the calls follow the pre-order of declarations: no
\* call on a field, input field, enum value or argument is made before a
\* call on the type or field that owns it, nor before a call on an earlier
\* sibling or on an argument of an earlier sibling.
C19_PreOrder ==
  \A p, q \in 1..Len(dispatched) :
    p < q => << dispatched[q].type, dispatched[p].type >> \notin PreOrder

\* the last argument of field Query.me was called before the next field,
\* Query.all
C19_Witness ==
  \E p, q \in 1..Len(dispatched) :
    /\ p < q
    /\ dispatched[p].type = "Query_me_as"
    /\ dispatched[q].type = "Query_all"
    /\ << "Query_me_as", "Query_all" >> \in PreOrder

(***************************************************************************)
(* Input fields and fields are told apart (checked under SpecAbort).       *)
(***************************************************************************)
InputObjectTypes ==
  { t \in DOMAIN NamedTypes : NamedTypes[t].class = "GraphQLInputObjectType" }
FieldOwnerTypes ==
  { t \in DOMAIN NamedTypes :
      NamedTypes[t].class \in {"GraphQLObjectType", "GraphQLInterfaceType"} }
InputFieldNodes ==
  UNION { Elements(NamedTypes[t].fields) : t \in InputObjectTypes }
FieldNodes ==
  UNION { Elements(NamedTypes[t].fields) : t \in FieldOwnerTypes }

\* C20: the fields of an input object type are reached only through
\* visitInputFieldDefinition: a class that overrides only
\* visitFieldDefinition has no instance on an input field, a class that
\* overrides only visitInputFieldDefinition has no instance on a field of an
\* object or interface type, every call on an input field is a
\* visitInputFieldDefinition call, and no visitArgumentDefinition call is
\* ever made with an input object type as its objectType.
C20_InputFieldPath ==
  /\ \A k \in 1..Len(constructed) :
       /\ OverridesTable[constructed[k].class] = {"visitFieldDefinition"}
            => constructed[k].visitedType \notin InputFieldNodes
       /\ OverridesTable[constructed[k].class] = {"visitInputFieldDefinition"}
            => constructed[k].visitedType \notin FieldNodes
  /\ \A p \in 1..Len(dispatched) :
       /\ dispatched[p].type \in InputFieldNodes
            => dispatched[p].methodName = "visitInputFieldDefinition"
       /\ dispatched[p].methodName = "visitArgumentDefinition"
            => dispatched[p].additionalArgs[1].objectType
                 \notin InputObjectTypes
  /\ \A i \in 1..Len(visit) :
       visit[i].methodName = "visitArgumentDefinition"
         => visit[i].additionalArgs[1].objectType \notin InputObjectTypes

\* a walk returned in which @length, handled by a class that overrides only
\* visitFieldDefinition, sits on the input field Filter.max and on the field
\* Query.me: the field got its instance and its call, the input field none
C20_Witness ==
  /\ pc = "returned"
  /\ "length" \in DOMAIN directiveVisitors
  /\ OverridesTable[directiveVisitors["length"]] = {"visitFieldDefinition"}
  /\ \E i \in 1..Len(OccurrencesOn("Filter_max")) :
       OccurrencesOn("Filter_max")[i].name = "length"
  /\ InstancesOn("Filter_max") = {}
  /\ \E k \in InstancesOn("Query_me") :
       constructed[k].class = directiveVisitors["length"]
  /\ \E p \in 1..Len(dispatched) :
       /\ dispatched[p].type = "Query_me"
       /\ dispatched[p].methodName = "visitFieldDefinition"

(***************************************************************************)
(* The context handed to a visitor method (checked under Spec).            *)
(***************************************************************************)
\* the additional arguments a call on the node should carry, from the
\* declarations alone
OwnersOf(node) ==
  IF node \in DOMAIN Arguments
  THEN << [field |-> ParentOf(node), objectType |-> ParentOf(ParentOf(node))] >>
  ELSE IF node \in EnumValueNodes THEN << [enumType |-> ParentOf(node)] >>
  ELSE IF node \in DOMAIN Fields THEN << [objectType |-> ParentOf(node)] >>
  ELSE <<>>

OwnersTable == [ node \in Nodes |-> OwnersOf(node) ]

\* C21: every call made on a field, input field, argument or enum value
\* carries exactly one context object naming its actual owners (objectType
\* for a field or input field, field and objectType for an argument,
\* enumType for an enum value), and every call on the schema or on a named
\* type carries no context.
C21_Context ==
  \A p \in 1..Len(dispatched) :
    dispatched[p].additionalArgs = OwnersTable[dispatched[p].type]

\* an argument was called with its field and that field's type, and a named
\* type or the schema with no context
C21_Witness ==
  /\ \E p \in 1..Len(dispatched) :
       /\ dispatched[p].type = "Query_me_as"
       /\ dispatched[p].additionalArgs =
            << [field |-> "Query_me", objectType |-> "Query"] >>
  /\ \E q \in 1..Len(dispatched) :
       /\ dispatched[q].type \in DOMAIN NamedTypes \cup {SchemaNode}
       /\ dispatched[q].additionalArgs = <<>>

(***************************************************************************)
(* The order of the calls across types (checked under Spec).               *)
(***************************************************************************)
\* the named type a node belongs to: the node itself or the owner at the top
\* of its lineage
RootOf(node) == CHOOSE r \in Lineage(node) : r \notin ChildNodes

\* 0 for the schema, else the position in the type map of the node's type
RankOf(node) == IF node = SchemaNode THEN 0 ELSE EntryOf(RootOf(node))

RankTable == [ node \in Nodes |-> RankOf(node) ]

\* C22: the calls for the schema's own occurrences come before every call on
\* a named type or on a child of one, and the calls on named types and their
\* children follow the order of the type map: once a call was made on a type
\* or one of its children, no later call is on an earlier type of the map or
\* on a child of an earlier type.
C22_TypeOrder ==
  \A p, q \in 1..Len(dispatched) :
    p < q => RankTable[dispatched[p].type] <= RankTable[dispatched[q].type]

\* the last argument of a field of the first type was called, and after it
\* a field of a later type of the map
C22_Witness ==
  \E p, q \in 1..Len(dispatched) :
    /\ p < q
    /\ dispatched[p].type = "Query_me_as"
    /\ dispatched[q].type = "Node_id"
    /\ RankTable["Query_me_as"] < RankTable["Node_id"]

(***************************************************************************)
(* Declared locations play no part (checked under SpecAbort).              *)
(***************************************************************************)
\* occurrence i of the node is of a declared directive
IsDeclared(node, i) ==
  OccurrencesOn(node)[i].name \in DOMAIN DeclaredByName(schemaDirectives)

\* the declaration of occurrence i lists the location of the node's kind
IsPermitted(node, i) ==
  methodToLocationMap[KindMethod(node)]
    \in DeclaredByName(schemaDirectives)[OccurrencesOn(node)[i].name].locations

\* the calls made on instances of occurrence i of the node
CallsFor(node, i) ==
  { p \in 1..Len(dispatched) :
      \E k \in InstancesFor(node, i) : dispatched[p].visitor = constructed[k].id }

\* C23: for an occurrence of a declared directive whose name is in the
\* handler table, on a node whose visitors were built, an instance exists
\* exactly when the class overrides the method of the node's kind, whether
\* or not the declaration lists the node's location: not listed and
\* overridden gives an instance, which has been called when the walk
\* returns; listed and not overridden gives none and no call.
C23_LocationsIgnored ==
  \A node \in ResolvedNodes :
    \A i \in 1..Len(OccurrencesOn(node)) :
      (IsDeclared(node, i)
         /\ OccurrencesOn(node)[i].name \in DOMAIN directiveVisitors) =>
        LET cls == directiveVisitors[OccurrencesOn(node)[i].name]
            overridden == KindMethod(node) \in OverridesTable[cls]
        IN  /\ (~IsPermitted(node, i) /\ overridden) =>
                 /\ InstancesFor(node, i) # {}
                 /\ pc = "returned" => CallsFor(node, i) # {}
            /\ (IsPermitted(node, i) /\ ~overridden) =>
                 /\ InstancesFor(node, i) = {}
                 /\ CallsFor(node, i) = {}

\* a walk returned in which @auth is declared on FIELD_DEFINITION only: its
\* occurrence on the input field Filter.max was called, the class overriding
\* visitInputFieldDefinition, and its occurrence on the field Query.me was
\* not, the class not overriding visitFieldDefinition
C23_Witness ==
  /\ pc = "returned"
  /\ \E i \in 1..Len(OccurrencesOn("Filter_max")) :
       /\ IsDeclared("Filter_max", i)
       /\ ~IsPermitted("Filter_max", i)
       /\ CallsFor("Filter_max", i) # {}
  /\ \E i \in 1..Len(OccurrencesOn("Query_me")) :
       /\ IsDeclared("Query_me", i)
       /\ IsPermitted("Query_me", i)
       /\ OccurrencesOn("Query_me")[i].name \in DOMAIN directiveVisitors
       /\ InstancesFor("Query_me", i) = {}

(***************************************************************************)
(* shouldCall on its own: calls on the classes with any method name.       *)
(***************************************************************************)
\* shouldCall() calls made in one run
MaxQueries == 1

\* names that are no visitor methods: a helper method of a subclass, two
\* properties every prototype has, and a name no object has
OtherNames == {"ensureWrapped", "constructor", "toString", "visitFoo"}

MethodNames == BaseMethods \cup OtherNames

InitShouldCall ==
  /\ locations = InitialLocations
  /\ located = <<>>
  /\ pc = "shouldCall"
  /\ astNode = [n \in Nodes |-> Undefined]
  /\ schemaDirectives = <<>>
  /\ directiveVisitors = <<>>
  /\ declaredDirectives = <<>>
  /\ createdVisitors = <<>>
  /\ callIdx = 0
  /\ pending = <<>>
  /\ constructed = <<>>
  /\ dispatched = <<>>
  /\ thrown = NoError
  /\ result = NoResult
  /\ valueNode = NullNode
  /\ decoded = Undefined

\* one call cls.shouldCall(methodName)
ShouldCall(cls, methodName) ==
  /\ pc = "shouldCall"
  /\ Len(located) < MaxQueries
  /\ located' = Append(located,
                  [class |-> cls, methodName |-> methodName,
                   returned |-> shouldCall(cls, methodName)])
  /\ UNCHANGED << walkVars, valueNode, decoded, locations >>

NextShouldCall ==
  \E cls \in ClassNames, methodName \in MethodNames : ShouldCall(cls, methodName)

SpecShouldCall == InitShouldCall /\ [][NextShouldCall]_vars

\* the functions of the base class's eleven visitor method stubs
InertStubs == { << BaseClass, m >> : m \in BaseMethods }

\* C24: shouldCall(methodName) on a class returns true exactly when
\* methodName is one of the eleven recognized visitor methods and the
\* function the class has under that name is none of the base class's
\* stubs; so it returns false for every other name, false on the base class,
\* false for a method set to another stub of the base class, and true for an
\* override inherited from a class between the class and the base class.
C24_ShouldCall ==
  /\ Cardinality(DOMAIN methodToLocationMap) = 11
  /\ DOMAIN methodToLocationMap = BaseMethods
  /\ \A q \in 1..Len(located) :
       LET cls == located[q].class
           methodName == located[q].methodName
       IN  /\ located[q].returned =
                (/\ methodName \in BaseMethods
                 /\ PrototypeGet(cls, methodName) \notin InertStubs)
           /\ methodName \notin BaseMethods => located[q].returned = FALSE
           /\ cls = BaseClass => located[q].returned = FALSE
           /\ (cls # BaseClass /\ Overrides(cls, methodName))
                => located[q].returned = TRUE

\* shouldCall("visitObject") was asked of the class that inherits its
\* visitObject from AuthVisitor, and returned true
C24_Witness ==
  \E q \in 1..Len(located) :
    /\ located[q].class = "EnumAuthVisitor"
    /\ located[q].methodName = "visitObject"
    /\ "visitObject" \notin Classes["EnumAuthVisitor"].own
    /\ located[q].returned = TRUE

(***************************************************************************)
(* Walks whose visitor methods change the schema.  A visitor method is     *)
(* code of the caller: it may edit the directive list of the node it was   *)
(* handed and the directives the schema declares.                          *)
(***************************************************************************)
\* @auth, @auth(requires: USER), @length(opts: $v)
EffectAuth == DirectiveNode("auth", <<>>)
EffectAuthUser ==
  DirectiveNode("auth", << ArgumentNode("requires", EnumNode("USER")) >>)
EffectLengthVariable ==
  DirectiveNode("length", << ArgumentNode("opts", VariableNode("v")) >>)

\* @auth(requires: $v)
EffectAuthVariable ==
  DirectiveNode("auth", << ArgumentNode("requires", VariableNode("v")) >>)

EffectOccurrenceLists ==
  { << EffectAuth >>, << EffectAuth, EffectAuthUser >>,
    << EffectAuth, EffectLengthVariable >>, << EffectLengthVariable >>,
    << EffectAuthVariable >>, << EffectAuthVariable, EffectAuthUser >> }

EffectNodes == {SchemaNode, "Query", "Query_me", "Role_USER"}

EffectDeclarationLists ==
  { <<>>, << AuthDecl >>, << AuthDecl, AuthDeclNoDefault >> }

EffectVisitorTables ==
  { [auth |-> "AllVisitor", length |-> "FieldVisitor"],
    [auth |-> "EnumAuthVisitor"] }

InitEffects ==
  /\ \E ds \in EffectOccurrenceLists, n1 \in EffectNodes, n2 \in EffectNodes :
       astNode = [n \in Nodes |->
                    IF n \in {n1, n2} THEN AstNode(ds)
                    ELSE IF n = SchemaNode THEN Undefined ELSE AstNode(<<>>)]
  /\ schemaDirectives \in EffectDeclarationLists
  /\ directiveVisitors \in EffectVisitorTables
  /\ pc = "start"
  /\ declaredDirectives = <<>>
  /\ createdVisitors = <<>>
  /\ callIdx = 0
  /\ pending = <<>>
  /\ constructed = <<>>
  /\ dispatched = <<>>
  /\ thrown = NoError
  /\ result = NoResult
  /\ valueNode = NullNode
  /\ decoded = Undefined
  /\ locations = InitialLocations
  /\ located = <<>>

\* what the body of a visitor method may do to the schema
HandlerEffects == {"none", "clear", "replace", "undeclare", "declare"}

\* the directive list of the visited node after the method ran
EffectOnNode(effect, type) ==
  CASE effect = "clear" -> AstNode(<<>>)
    [] effect = "replace" -> AstNode(<< EffectLengthVariable >>)
    [] OTHER -> astNode[type]

\* schema.getDirectives() after the method ran
EffectOnDeclarations(effect) ==
  CASE effect = "undeclare" -> <<>>
    [] effect = "declare" -> << AuthDecl >>
    [] OTHER -> schemaDirectives

\* a mutation of DispatchEffect: after each call the visitors still to be
\* called are matched again with the directive list of the node
DispatchEffectRereading ==
  /\ pc = "walking"
  /\ pending # <<>>
  /\ \E effect \in HandlerEffects :
       LET d == NextVisitor(pending)
           type == visit[callIdx].type
       IN  /\ dispatched' = Append(dispatched, MethodCall(d, visit[callIdx]))
           /\ astNode' = [astNode EXCEPT ![type] = EffectOnNode(effect, type)]
           /\ schemaDirectives' = EffectOnDeclarations(effect)
           /\ pending' =
                SelectSeq(RestVisitors(pending, d),
                  LAMBDA v :
                    /\ v.occurrence <= Len(EffectOnNode(effect, type).directives)
                    /\ EffectOnNode(effect, type).directives[v.occurrence].name
                         = v.name)
  /\ UNCHANGED << directiveVisitors, pc, declaredDirectives, createdVisitors,
                  callIdx, constructed, thrown, result, valueNode, decoded,
                  locations, located >>
\* the forEach of callVisitorMethods calls the method on the next visitor,
\* and the method does what it does to the schema
DispatchEffect ==
  /\ pc = "walking"
  /\ pending # <<>>
  /\ \E effect \in HandlerEffects :
       LET d == NextVisitor(pending)
           type == visit[callIdx].type
       IN  /\ dispatched' = Append(dispatched, MethodCall(d, visit[callIdx]))
           /\ astNode' = [astNode EXCEPT ![type] = EffectOnNode(effect, type)]
           /\ schemaDirectives' = EffectOnDeclarations(effect)
           /\ pending' = RestVisitors(pending, d)
  /\ UNCHANGED << directiveVisitors, pc, declaredDirectives, createdVisitors,
                  callIdx, constructed, thrown, result, valueNode, decoded,
                  locations, located >>

NextEffects == Begin \/ GetVisitors \/ DispatchEffect \/ Return

SpecEffects == InitEffects /\ [][NextEffects]_vars

\* the calls made so far on a node
CallsOn(node) == { p \in 1..Len(dispatched) : dispatched[p].type = node }

\* C25: when getVisitors returns for a node, every visitor of the node is
\* already built, with its args, and registered under its name in
\* createdVisitors, one per matching occurrence of the node's directive
\* list as it is then, and none of them has been called; every call after
\* that takes the first visitor still waiting and leaves the others, their
\* args and createdVisitors as they are, whatever the method called does to
\* the node's directive list or to the declared directives.
C25_BuiltBeforeCalled ==
  [][ /\ (pc = "walking" /\ pending = <<>> /\ callIdx' = callIdx + 1) =>
           LET node == visit[callIdx'].type
           IN  /\ dispatched' = dispatched
               /\ Len(pending') = Cardinality(MatchesOn(node))
               /\ \A j \in 1..Len(pending') :
                    /\ pending'[j] \in Elements(constructed')
                    /\ pending'[j]
                         \in Elements(createdVisitors'[pending'[j].name])
                    /\ pending'[j].visitedType = node
                    /\ Matches(node, pending'[j].occurrence)
      /\ (pc = "walking" /\ pending # <<>>) =>
           /\ pending' = Tail(pending)
           /\ Len(dispatched') = Len(dispatched) + 1
           /\ dispatched'[Len(dispatched')].visitor = Head(pending).id
           /\ dispatched'[Len(dispatched')].type = Head(pending).visitedType
           /\ constructed' = constructed
           /\ createdVisitors' = createdVisitors ]_vars

\* the first of two visitors of a node was called and its method emptied
\* the node's directive list; the second visitor is still waiting
C25_Witness ==
  /\ pc = "walking"
  /\ Len(pending) = 1
  /\ Cardinality(CallsOn(pending[1].visitedType)) = 1
  /\ OccurrencesOn(pending[1].visitedType) = <<>>

\* the visitors registered in createdVisitors
Registered ==
  UNION { Elements(createdVisitors[name]) : name \in DOMAIN createdVisitors }

\* C26: the step on which decoding fails for an occurrence of a node calls
\* no visitor and registers none: the node has received no call, the
\* visitors built for its earlier occurrences are in no list of
\* createdVisitors and have no call, and visitSchema returns nothing; every
\* visitor built for an earlier node has had its one call, and the directive
\* lists and declared directives are left as the methods called made them.
\* After the error nothing more happens.
C26_FailedNode ==
  [][ /\ pc # "thrown"
      /\ pc' = "thrown" =>
           LET node == visit[callIdx + 1].type
           IN  /\ IsThrow(thrown')
               /\ result' = NoResult
               /\ dispatched' = dispatched
               /\ createdVisitors' = createdVisitors
               /\ astNode' = astNode
               /\ schemaDirectives' = schemaDirectives
               /\ CallsOn(node) = {}
               /\ \A v \in Registered : v.visitedType # node
               /\ \A k \in 1..Len(constructed') :
                    IF k <= Len(constructed)
                    THEN /\ constructed'[k] = constructed[k]
                         /\ constructed[k].visitedType # node
                         /\ constructed[k] \in Registered
                         /\ Cardinality(CallsOf(constructed[k].id)) = 1
                    ELSE /\ constructed'[k].visitedType = node
                         /\ CallsOf(constructed'[k].id) = {} ]_vars

\* decoding failed on the second occurrence of Query.me: the visitor of its
\* first occurrence was built but is neither registered nor called, and the
\* directive list of Query, emptied by a method called earlier, is still
\* empty
C26_Witness ==
  /\ pc = "thrown"
  /\ visit[callIdx + 1].type = "Query_me"
  /\ \E k \in 1..Len(constructed) :
       /\ constructed[k].visitedType = "Query_me"
       /\ constructed[k].occurrence = 1
       /\ constructed[k] \notin Registered
  /\ CallsOn("Query_me") = {}
  /\ CallsOn("Query") # {}
  /\ OccurrencesOn("Query") = <<>>

\* the occurrences of the node that hold a literal of an unlisted kind
UnsupportedOn(node) ==
  { i \in 1..Len(OccurrencesOn(node)) :
      OccurrenceUnsupported(OccurrencesOn(node)[i]) }

\* some occurrence of the node is rejected by the declared types' coercion
RejectedOn(node) ==
  \E i \in 1..Len(OccurrencesOn(node)) : IsRejected(node, i)

RECURSIVE EachDirectiveInstanceUntyped(_, _, _, _)
\* a mutation of EachDirectiveInstance: the declaration is never consulted
EachDirectiveInstanceUntyped(directiveNodes, i, type, directiveInstances) ==
  IF i > Len(directiveNodes)
  THEN [visitors |-> directiveInstances, thrown |-> NoError]
  ELSE
    LET directiveNode == directiveNodes[i]
        name == directiveNode.name
    IN  IF name \notin DOMAIN directiveVisitors
        THEN EachDirectiveInstanceUntyped(directiveNodes, i + 1, type,
                                          directiveInstances)
        ELSE
          LET args == EachArgument(directiveNode.arguments, EmptyObject)
          IN  IF IsThrow(args)
              THEN [visitors |-> directiveInstances, thrown |-> args]
              ELSE EachDirectiveInstanceUntyped(directiveNodes, i + 1, type,
                     Append(directiveInstances,
                       NewVisitor(
                         Len(constructed) + Len(directiveInstances) + 1,
                         directiveVisitors[name], name, args, type, i)))
RECURSIVE EachDirectiveInstance(_, _, _, _)
\* directiveNodes.forEach(directiveNode => ...) of getDirectives from
\* position i on; ends with the list, or with the error thrown
EachDirectiveInstance(directiveNodes, i, type, directiveInstances) ==
  IF i > Len(directiveNodes)
  THEN [visitors |-> directiveInstances, thrown |-> NoError]
  ELSE
    LET directiveNode == directiveNodes[i]
        name == directiveNode.name
    IN  IF name \notin DOMAIN directiveVisitors
        THEN EachDirectiveInstance(directiveNodes, i + 1, type,
                                   directiveInstances)
        ELSE
          LET args == CoerceArguments(directiveNode)
          IN  IF IsThrow(args)
              THEN [visitors |-> directiveInstances, thrown |-> args]
              ELSE EachDirectiveInstance(directiveNodes, i + 1, type,
                     Append(directiveInstances,
                       NewVisitor(
                         Len(constructed) + Len(directiveInstances) + 1,
                         directiveVisitors[name], name, args, type, i)))

getDirectives(type) ==
  IF astNode[type] = Undefined THEN [visitors |-> <<>>, thrown |-> NoError]
  ELSE EachDirectiveInstance(astNode[type].directives, 1, type, <<>>)

\* visitSchema up to the call of visit(schema): the table of declarations
BeginOlder ==
  /\ pc = "start"
  /\ pc' = "walking"
  /\ declaredDirectives' = DeclaredByName(schemaDirectives)
  /\ UNCHANGED << astNode, schemaDirectives, directiveVisitors,
                  createdVisitors, callIdx, pending, constructed, dispatched,
                  thrown, result, valueNode, decoded, locations, located >>

\* the walk reaches its next node: getDirectives builds the node's
\* instances, or an error leaves visitSchema
GetDirectives ==
  /\ pc = "walking"
  /\ pending = <<>>
  /\ callIdx < Len(visit)
  /\ LET got == getDirectives(visit[callIdx + 1].type)
     IN  /\ constructed' = constructed \o got.visitors
         /\ IF got.thrown # NoError
            THEN /\ pc' = "thrown"
                 /\ thrown' = got.thrown
                 /\ UNCHANGED << callIdx, pending >>
            ELSE /\ pending' = got.visitors
                 /\ callIdx' = callIdx + 1
                 /\ UNCHANGED << pc, thrown >>
  /\ UNCHANGED << astNode, schemaDirectives, directiveVisitors,
                  declaredDirectives, createdVisitors, dispatched, result,
                  valueNode, decoded, locations, located >>

\* visit(schema) is over: visitSchema ends without a return statement
ReturnOlder ==
  /\ pc = "walking"
  /\ pending = <<>>
  /\ callIdx = Len(visit)
  /\ pc' = "returned"
  /\ result' = Undefined
  /\ UNCHANGED << astNode, schemaDirectives, directiveVisitors,
                  declaredDirectives, createdVisitors, callIdx, pending,
                  constructed, dispatched, thrown, valueNode, decoded,
                  locations, located >>

NextOlder == BeginOlder \/ GetDirectives \/ Dispatch \/ ReturnOlder

SpecOlder == InitEffects /\ [][NextOlder]_vars

\* what a call is, leaving out the identity of the instance: the method, the
\* node, the context, the function reached, and the name, args and
\* occurrence of the instance called
CallSummary(v, call) ==
  [ methodName |-> call.methodName, type |-> call.type,
    additionalArgs |-> call.additionalArgs,
    fn |-> PrototypeGet(v.class, call.methodName),
    name |-> v.name, args |-> v.args, occurrence |-> v.occurrence ]

RECURSIVE CurrentCallsFrom(_)
\* the calls the current variant makes on the same schema and table from
\* its i-th callVisitorMethods call on, when no coercion fails
CurrentCallsFrom(i) ==
  IF i > Len(visit) THEN <<>>
  ELSE LET got == getVisitors(visit[i].type, visit[i].methodName)
       IN  [ j \in 1..Len(got.visitors) |->
               CallSummary(got.visitors[j], visit[i]) ]
             \o CurrentCallsFrom(i + 1)

\* a coercion fails in the current variant
CurrentFails ==
  \E i \in 1..Len(visit) :
    getVisitors(visit[i].type, visit[i].methodName).thrown # NoError

\* the calls made in this walk
CallsMade ==
  [ p \in 1..Len(dispatched) |->
      CallSummary(Receiver(p),
                  [methodName |-> dispatched[p].methodName,
                   type |-> dispatched[p].type,
                   additionalArgs |-> dispatched[p].additionalArgs]) ]

IsOverridden(c) == c.fn \notin visitorMethodStubSet

\* the calls agree, and each further instance is of a class that does not
\* override the method and was called once, reaching a stub
SameOverriddenCalls ==
  /\ ~CurrentFails
  /\ SelectSeq(CallsMade, IsOverridden) = CurrentCallsFrom(1)
  /\ \A j \in 1..Len(CurrentCallsFrom(1)) : IsOverridden(CurrentCallsFrom(1)[j])
  /\ \A k \in 1..Len(constructed) :
       /\ Cardinality(CallsOf(constructed[k].id)) = 1
       /\ ~Overrides(constructed[k].class,
                     KindMethod(constructed[k].visitedType)) =>
            \A p \in CallsOf(constructed[k].id) : ~IsOverridden(CallsMade[p])

\* C28 as stated: when the older variant returns, it has made the same calls
\* to overridden methods as the current variant makes on the same schema and
\* table, and apart from the instances of classes that do not override the
\* method nothing differs: it returns the mapping the current variant
\* returns.
C28_DifferOnlyInStubCalls ==
  pc = "returned" =>
    /\ SameOverriddenCalls
    /\ result.t = "map"
    /\ DOMAIN result.map = DOMAIN directiveVisitors

\* C28, amended: when the older variant returns, it has made the same calls
\* to overridden methods, on the same nodes with the same args and context,
\* in the same order, as the current variant makes on the same schema and
\* table; its further instances are of classes that do not override the
\* method and their one call reaches a stub; and it returns nothing, where
\* the current variant returns createdVisitors.
C28_SameCallsNoResult ==
  pc = "returned" =>
    /\ SameOverriddenCalls
    /\ result = Undefined
    /\ createdVisitors = <<>>

\* the older variant returned after calling an overridden method and a stub
C28_Witness ==
  /\ pc = "returned"
  /\ result = Undefined
  /\ \E p \in 1..Len(dispatched) : IsOverridden(CallsMade[p])
  /\ \E p \in 1..Len(dispatched) : ~IsOverridden(CallsMade[p])
  /\ CurrentCallsFrom(1) # <<>>

\* the position of the last declaration of the list with the name
LastDeclared(decls, name) ==
  CHOOSE i \in 1..Len(decls) :
    /\ decls[i].name = name
    /\ \A j \in 1..Len(decls) : decls[j].name = name => i >= j

\* C29: the table of declarations is built in the one step that starts the
\* walk, before any node is resolved or any method called: its keys are the
\* names the schema declares then and each key holds the last declaration
\* of that name; no later step changes the table, whatever the methods
\* called do to the schema's declarations; and every visitor is built with
\* typed args if its name is a key of that table and with untyped args
\* otherwise.
C29_DeclaredOnce ==
  [][ /\ pc = "start" =>
           /\ callIdx = 0 /\ constructed = <<>> /\ dispatched = <<>>
           /\ schemaDirectives' = schemaDirectives
           /\ DOMAIN declaredDirectives'
                = { schemaDirectives[i].name : i \in 1..Len(schemaDirectives) }
           /\ \A name \in DOMAIN declaredDirectives' :
                declaredDirectives'[name]
                  = schemaDirectives[LastDeclared(schemaDirectives, name)]
      /\ pc # "start" => declaredDirectives' = declaredDirectives
      /\ \A k \in (Len(constructed) + 1)..Len(constructed') :
           LET v == constructed'[k]
               directiveNode == OccurrencesOn(v.visitedType)[v.occurrence]
           IN  v.args =
                 IF v.name \in DOMAIN declaredDirectives
                 THEN getArgumentValues(declaredDirectives[v.name],
                                        directiveNode)
                 ELSE EachArgument(directiveNode.arguments, EmptyObject) ]_vars

\* a method called earlier removed every declaration from the schema; the
\* visitor of @auth built after that, not yet called, still carries the
\* default of the declaration the walk began with
C29_Witness ==
  /\ pc = "walking"
  /\ pending # <<>>
  /\ CallsOn(pending[1].visitedType) = {}
  /\ dispatched # <<>>
  /\ schemaDirectives = <<>>
  /\ "auth" \in DOMAIN declaredDirectives
  /\ pending[1].name = "auth"
  /\ OccurrencesOn(pending[1].visitedType)[pending[1].occurrence] = EffectAuth
  /\ pending[1].args
       = JsObject(ObjSet(EmptyObject, "requires", JsString("ADMIN")))

====
